---- MODULE Spec2Model ----
(***************************************************************************)
(* SKL v1.4 pre-push enforcement hook (src/.githooks/pre-push.py).         *)
(*                                                                         *)
(* The specifications below share the variables:                           *)
(*   Spec      - main(): startup, Check 1, 2, 5, 6, 7, the per-file loop   *)
(*               and atomic_write_knowledge, run after run on one          *)
(*               knowledge.json;                                           *)
(*   SpecGates - check_queue_budget, check_acceptance_criteria and         *)
(*               check_rfc_scope_pause applied as pure functions to        *)
(*               inputs drawn from bounded sets;                           *)
(*   SpecRisk  - the Check 3 functions (tree differ, signature extractor,  *)
(*               record scans, build_risk_signals) as pure functions;      *)
(*   SpecScope - check_file_scope followed by check_semantic_scope;        *)
(*   SpecDeps  - validate_dependencies and its known-expected test.        *)
(*                                                                         *)
(* Strings that the code only compares are TLA+ strings; paths are         *)
(* sequences of one-character strings; a file's content is the sequence of *)
(* tokens json.dump produces, so that a partial write is a proper prefix.  *)
(***************************************************************************)
EXTENDS Integers, Sequences, FiniteSets, TLC

VARIABLES
    cfg,            \* hook_config.json after load_hook_config: skl_mode, queue_max
    disk,           \* the file at knowledge_path
    tmp,            \* the file at knowledge_path + ".tmp"
    pc,             \* position of main() (or "gates" under SpecGates)
    exit_status,    \* process exit status, NoExit while running / before a run
    exit_reason,    \* why the run ended
    disk0,          \* content of knowledge_path when the run started
    agent_context,  \* <agent_id>_context.json as loaded
    scope_entry,    \* scope_definitions.json as loaded: the agent's entry (present)
                    \* and the known-expected imports (defs_loaded), or NoScopeEntry
    knowledge,      \* the in-memory knowledge document
    queue0,         \* the queue as loaded at the start of the run
    rfcs,           \* the .json files of .skl/rfcs, in os.listdir order
    cur_branch,     \* _current_branch (NoBranch: git rev-parse failed)
    modified_files, \* result of get_modified_files after the None -> [] fallback
    diff_failed,    \* get_modified_files returned None
    violations,     \* path -> FileViolation, kept as a sequence in modified-file order
    proposals,      \* proposals built so far in this run
    trace,          \* the steps main() has executed in this run, in order
    queue_max,      \* the effective queue_max of this run
    gout,           \* outputs of the gate functions (queue message, reports)
    fin,            \* arguments of a function applied on its own (SpecRisk, ...)
    fout,           \* its result
    inv,            \* the invocations of the engine that run side by side (SpecConc)
    fs              \* the directory of knowledge_path and the files behind it (SpecConc)

vars == <<cfg, disk, tmp, pc, exit_status, exit_reason, disk0, agent_context,
          scope_entry, knowledge, queue0, rfcs, cur_branch, modified_files,
          diff_failed, violations, proposals, trace, queue_max, gout, fin, fout,
          inv, fs>>

----------------------------------------------------------------------------
(* Bounds *)

MaxFiles == 2       \* modified files in one run
MaxQueueLen == 3    \* queue entries on disk (runs that would exceed it are not started)
MaxInitQueue == 1   \* queue entries in the initial knowledge.json
MaxRFCs == 2        \* RFC files under SpecGates
MaxGateQueue == 3   \* queue entries given to check_queue_budget under SpecGates
MaxQueueMaxCfg == 2 \* configured queue_max values 1..MaxQueueMaxCfg
MaxConfigured == 51  \* queue_max values 1..MaxConfigured in hook_config.json (SpecConfig)

(* Program constants *)

PHASE_0_QUEUE_MAX == 50
NowUTC == 10        \* datetime.now(timezone.utc) at evaluation, as an instant
Today == 20261105   \* now.strftime("%Y%m%d") of the submission date

----------------------------------------------------------------------------
(* Small helpers *)

RECURSIVE SeqsUpTo(_, _)
SeqsUpTo(S, n) ==
    IF n = 0 THEN {<<>>}
    ELSE LET shorter == SeqsUpTo(S, n - 1)
         IN  shorter \cup {Append(s, x) : s \in {t \in shorter : Len(t) = n - 1}, x \in S}

IsPrefix(p, s) == Len(p) <= Len(s) /\ SubSeq(s, 1, Len(p)) = p

\* str.startswith
startswith(s, prefix) == IsPrefix(prefix, s)

\* str.endswith
endswith(s, suffix) ==
    Len(suffix) <= Len(s) /\ SubSeq(s, Len(s) - Len(suffix) + 1, Len(s)) = suffix

----------------------------------------------------------------------------
(* Values *)

NoExit == -1
NoBranch == "<none>"
NoScopeEntry == [present |-> FALSE, allowed_paths |-> {},
                 allowed_path_prefixes |-> {}, forbidden_path_prefixes |-> {},
                 defs_loaded |-> FALSE, known_expected |-> <<>>]
NoContext == [present |-> FALSE, agent_id |-> "", semantic_scope |-> "",
              file_scope |-> {}]
NoId == <<>>

\* paths, one character per element
P_auth == <<"a", "/", "x", ".", "p", "y">>
P_ui == <<"u", "/", "y", ".", "p", "y">>
P_doc == <<"d", "/", "r">>
P_cfg == <<"u", "/", "c">>
FileOrder == <<P_ui, P_auth, P_doc, P_cfg>>

\* a queue entry: the fields of a QueueProposal that the hook reads or writes;
\* branch = "" and semantic_scope = "" stand for an absent key
Entry(id, status, branch, scope, path) ==
    [proposal_id |-> id, agent_id |-> id[2], path |-> path,
     semantic_scope |-> scope, status |-> status,
     out_of_scope |-> FALSE, cross_scope_flag |-> FALSE,
     risk_signals |-> [touched_auth_or_permission_patterns |-> FALSE,
                       public_api_signature_changed |-> FALSE,
                       invariant_referenced_file_modified |-> FALSE,
                       high_fan_in_module_modified |-> FALSE,
                       ast_change_type |-> "behavioral",
                       mechanical_only |-> FALSE],
     dependency_scan |-> [undeclared_imports |-> <<>>, stale_declared_deps |-> <<>>,
                          cross_scope_undeclared |-> <<>>],
     blocking_reasons |-> <<>>, branch |-> branch]

PropId(date, agent_id, seq) == <<date, agent_id, seq>>

----------------------------------------------------------------------------
(* knowledge.json on disk: json.dump / json.load *)

NoFile == [exists |-> FALSE, data |-> <<>>]
File(data) == [exists |-> TRUE, data |-> data]

RECURSIVE ItemTokens(_)
ItemTokens(q) ==
    IF q = <<>> THEN <<>> ELSE <<<<"item", Head(q)>>>> \o ItemTokens(Tail(q))

\* json.dump(knowledge, f, indent=2); f.write("\n")
Serialize(k) ==
    <<<<"{", 0>>, <<"state", k.state>>, <<"invariants", k.invariants>>>>
        \o ItemTokens(k.queue) \o <<<<"}", 0>>>>

WellFormed(data) ==
    /\ Len(data) >= 4
    /\ data[1][1] = "{"
    /\ data[2][1] = "state"
    /\ data[3][1] = "invariants"
    /\ data[Len(data)][1] = "}"
    /\ \A i \in 4..(Len(data) - 1) : data[i][1] = "item"

\* read_json_file: None on a missing file or a JSON error
read_json_file(f) ==
    IF f.exists /\ WellFormed(f.data)
    THEN [ok |-> TRUE,
          doc |-> [state |-> f.data[2][2], invariants |-> f.data[3][2],
                   queue |-> [i \in 1..(Len(f.data) - 4) |-> f.data[i + 3][2]]]]
    ELSE [ok |-> FALSE, doc |-> [state |-> <<>>, invariants |-> <<>>, queue |-> <<>>]]

----------------------------------------------------------------------------
(* Check 1 and Check 2 *)

FileViolation(path) == [path |-> path, out_of_scope |-> FALSE, cross_scope_flag |-> FALSE]

\* an empty file_scope read as "no file allowed"
check_file_scope_strict(files, file_scope) ==
    [i \in DOMAIN files |->
        IF files[i] \notin file_scope
        THEN [FileViolation(files[i]) EXCEPT !.out_of_scope = TRUE]
        ELSE FileViolation(files[i])]

check_file_scope(files, file_scope) ==
    [i \in DOMAIN files |->
        IF file_scope # {} /\ files[i] \notin file_scope
        THEN [FileViolation(files[i]) EXCEPT !.out_of_scope = TRUE]
        ELSE FileViolation(files[i])]

\* the forbidden prefixes tested before the allowed ones
check_semantic_scope_forbidden_first(viols, entry) ==
    IF ~entry.present THEN viols
    ELSE [i \in DOMAIN viols |->
            IF \E p \in entry.forbidden_path_prefixes : startswith(viols[i].path, p)
            THEN [viols[i] EXCEPT !.cross_scope_flag = TRUE]
            ELSE viols[i]]

check_semantic_scope(viols, entry) ==
    IF ~entry.present THEN viols
    ELSE [i \in DOMAIN viols |->
            IF viols[i].path \in entry.allowed_paths THEN viols[i]
            ELSE IF \E p \in entry.allowed_path_prefixes : startswith(viols[i].path, p)
                 THEN viols[i]
            ELSE IF \E p \in entry.forbidden_path_prefixes : startswith(viols[i].path, p)
                 THEN [viols[i] EXCEPT !.cross_scope_flag = TRUE]
            ELSE viols[i]]

----------------------------------------------------------------------------
(* Check 5: queue budget *)

NoMessage == <<>>

QueueFullMessage(pending_count, qmax) ==
    <<"SKL: Queue is full (", ToString(pending_count), "/", ToString(qmax),
      " pending proposals). ",
      "Wait for the Orchestrator to process the Queue before pushing.">>

\* the status literal mistyped: entries waiting for review are never counted
PendingCount_approved(queue) == Cardinality({i \in DOMAIN queue : queue[i].status = "approved"})

PendingCount(queue) == Cardinality({i \in DOMAIN queue : queue[i].status = "pending"})

\* the comparison off by one: a queue with exactly qmax pending entries passes
check_queue_budget_gt(k, qmax) ==
    LET pending_count == PendingCount(k.queue)
    IN  IF pending_count > qmax THEN QueueFullMessage(pending_count, qmax)
        ELSE NoMessage

check_queue_budget(k, qmax) ==
    LET pending_count == PendingCount(k.queue)
    IN  IF pending_count >= qmax THEN QueueFullMessage(pending_count, qmax)
        ELSE NoMessage

----------------------------------------------------------------------------
(* RFC files *)

\* human_response_deadline as found in the RFC document.  form:
\*   "missing"  key absent, null or ""
\*   "number"   a JSON value that is not a string
\*   "garbage"  a string that is not an ISO timestamp
\*   "Z"        ISO local time followed by "Z"
\*   "offset"   ISO local time followed by a UTC offset off
\*   "naive"    ISO local time with no offset
Deadline(form, local, off) == [form |-> form, local |-> local, off |-> off]
NoDeadline == Deadline("missing", 0, 0)

Criterion(ac_id, status) == [ac_id |-> ac_id, status |-> status]

\* one file of .skl/rfcs: parse_ok = FALSE when json.load fails on it;
\* id = "" stands for an RFC document without an "id" key
RFC(name, id, status, flag, triggering, criteria, deadline) ==
    [name |-> name, parse_ok |-> TRUE, id |-> id, status |-> status, flag |-> flag,
     triggering |-> triggering, criteria |-> criteria, deadline |-> deadline]

\* queue_by_id: the dict comprehension keeps the last entry of each proposal_id
queue_by_id(queue) ==
    [id \in {queue[i].proposal_id : i \in DOMAIN queue} |->
        queue[CHOOSE i \in DOMAIN queue :
                /\ queue[i].proposal_id = id
                /\ \A j \in DOMAIN queue : queue[j].proposal_id = id => j <= i]]

\* rfc.get("id", os.path.basename(rfc_path))
RfcId(rfc) == IF rfc.id # "" THEN rfc.id ELSE rfc.name

RECURSIVE SelectSeq2(_, _)
SelectSeq2(s, keep) ==
    IF s = <<>> THEN <<>>
    ELSE IF keep[1] THEN <<Head(s)>> \o SelectSeq2(Tail(s), Tail(keep))
         ELSE SelectSeq2(Tail(s), Tail(keep))

\* the filter keeps only "pending": a criterion in any other unmet status is lost
FailingCriteria_pendingonly(criteria) ==
    SelectSeq2(criteria, [i \in DOMAIN criteria |-> criteria[i].status = "pending"])

\* failing = [c for c in criteria if c.get("status") != "passed"]
FailingCriteria(criteria) ==
    SelectSeq2(criteria, [i \in DOMAIN criteria |-> criteria[i].status # "passed"])

----------------------------------------------------------------------------
(* Check 6: acceptance criteria gate *)

\* the branch comparison left out: an RFC of another branch blocks too
AcceptanceFailing_anybranch(rfc, by_id, current_branch) ==
    IF ~rfc.parse_ok THEN <<>>
    ELSE IF rfc.flag # TRUE THEN <<>>
    ELSE IF rfc.status # "open" THEN <<>>
    ELSE IF rfc.triggering = NoId THEN <<>>
    ELSE IF rfc.triggering \notin DOMAIN by_id THEN <<>>
    ELSE IF by_id[rfc.triggering].branch = "" THEN <<>>
    ELSE FailingCriteria(rfc.criteria)

\* the failing criteria of rfc if the loop body reaches the block, else <<>>
AcceptanceFailing(rfc, by_id, current_branch) ==
    IF ~rfc.parse_ok THEN <<>>
    ELSE IF rfc.flag # TRUE THEN <<>>
    ELSE IF rfc.status # "open" THEN <<>>
    ELSE IF rfc.triggering = NoId THEN <<>>
    ELSE IF rfc.triggering \notin DOMAIN by_id THEN <<>>
    ELSE IF by_id[rfc.triggering].branch = "" THEN <<>>
    ELSE IF by_id[rfc.triggering].branch # current_branch THEN <<>>
    ELSE FailingCriteria(rfc.criteria)

RECURSIVE AcceptanceLoop(_, _, _, _)
AcceptanceLoop(rfc_files, by_id, current_branch, i) ==
    IF i > Len(rfc_files)
    THEN [allow |-> TRUE, rfc_id |-> "", failing |-> <<>>, examined |-> Len(rfc_files)]
    ELSE LET failing == AcceptanceFailing(rfc_files[i], by_id, current_branch)
         IN  IF failing = <<>>
             THEN AcceptanceLoop(rfc_files, by_id, current_branch, i + 1)
             ELSE [allow |-> FALSE, rfc_id |-> RfcId(rfc_files[i]),
                   failing |-> [j \in DOMAIN failing |-> failing[j].ac_id],
                   examined |-> i]

check_acceptance_criteria(k, current_branch, rfc_files) ==
    IF rfc_files = <<>>
    THEN [allow |-> TRUE, rfc_id |-> "", failing |-> <<>>, examined |-> 0]
    ELSE AcceptanceLoop(rfc_files, queue_by_id(k.queue), current_branch, 1)

----------------------------------------------------------------------------
(* Check 7: RFC scope pause *)

\* raw_deadline.replace("Z", "+00:00")
replace_Z(raw) == IF raw.form = "Z" THEN Deadline("offset", raw.local, 0) ELSE raw

\* datetime.fromisoformat: ValueError on a non-ISO string (and on a trailing
\* "Z" before Python 3.11); an aware datetime is kept as its UTC instant
fromisoformat(s) ==
    IF s.form = "offset" THEN [ok |-> TRUE, aware |-> TRUE, instant |-> s.local - s.off]
    ELSE IF s.form = "naive" THEN [ok |-> TRUE, aware |-> FALSE, instant |-> s.local]
    ELSE [ok |-> FALSE, aware |-> FALSE, instant |-> 0]

\* what one iteration of the loop does with rfc: "skip" (continue),
\* "block" (return False) or "raise" (an exception that nothing catches)
ScopePauseStep(rfc, by_id, agent_scope, now_utc) ==
    IF ~rfc.parse_ok THEN "skip"
    ELSE IF rfc.status # "open" THEN "skip"
    ELSE IF rfc.deadline.form = "missing" THEN "skip"
    ELSE IF rfc.deadline.form = "number" THEN "skip"   \* AttributeError, caught
    ELSE LET deadline_dt == fromisoformat(replace_Z(rfc.deadline))
         IN  IF ~deadline_dt.ok THEN "skip"            \* ValueError, caught
             ELSE IF ~deadline_dt.aware THEN "raise"   \* TypeError: naive > aware
             ELSE IF deadline_dt.instant > now_utc THEN "skip"
             ELSE IF rfc.triggering = NoId THEN "skip"
             ELSE IF rfc.triggering \notin DOMAIN by_id THEN "skip"
             ELSE IF by_id[rfc.triggering].semantic_scope # agent_scope THEN "skip"
             ELSE "block"

RECURSIVE ScopePauseLoop(_, _, _, _, _)
ScopePauseLoop(rfc_files, by_id, agent_scope, now_utc, i) ==
    IF i > Len(rfc_files)
    THEN [outcome |-> "allow", rfc_id |-> "", raw_deadline |-> NoDeadline,
          scope |-> "", examined |-> Len(rfc_files)]
    ELSE LET step == ScopePauseStep(rfc_files[i], by_id, agent_scope, now_utc)
         IN  IF step = "skip"
             THEN ScopePauseLoop(rfc_files, by_id, agent_scope, now_utc, i + 1)
             ELSE IF step = "raise"
             THEN [outcome |-> "raise", rfc_id |-> "", raw_deadline |-> NoDeadline,
                   scope |-> "", examined |-> i]
             ELSE [outcome |-> "block", rfc_id |-> RfcId(rfc_files[i]),
                   raw_deadline |-> rfc_files[i].deadline,
                   scope |-> agent_scope, examined |-> i]

check_rfc_scope_pause(k, ctx, rfc_files, now_utc) ==
    IF rfc_files = <<>>
    THEN [outcome |-> "allow", rfc_id |-> "", raw_deadline |-> NoDeadline,
          scope |-> "", examined |-> 0]
    ELSE ScopePauseLoop(rfc_files, queue_by_id(k.queue), ctx.semantic_scope, now_utc, 1)

----------------------------------------------------------------------------
(* Paths: os.path.normpath (POSIX) *)

\* str.split(sep)
RECURSIVE Split(_, _)
Split(s, sep) ==
    IF \A i \in DOMAIN s : s[i] # sep THEN <<s>>
    ELSE LET k == CHOOSE i \in DOMAIN s : s[i] = sep /\ \A j \in 1..(i - 1) : s[j] # sep
         IN  <<SubSeq(s, 1, k - 1)>> \o Split(SubSeq(s, k + 1, Len(s)), sep)

\* sep.join(comps)
RECURSIVE Join(_, _)
Join(comps, sep) ==
    IF comps = <<>> THEN <<>>
    ELSE IF Len(comps) = 1 THEN comps[1]
    ELSE comps[1] \o <<sep>> \o Join(Tail(comps), sep)

DotDot == <<".", ".">>

\* the component loop of normpath
RECURSIVE NormComps(_, _, _)
NormComps(comps, new_comps, initial_slashes) ==
    IF comps = <<>> THEN new_comps
    ELSE LET comp == Head(comps)
         IN  IF comp \in {<<>>, <<".">>}
             THEN NormComps(Tail(comps), new_comps, initial_slashes)
             ELSE IF \/ comp # DotDot
                     \/ (initial_slashes = 0 /\ new_comps = <<>>)
                     \/ (new_comps # <<>> /\ new_comps[Len(new_comps)] = DotDot)
             THEN NormComps(Tail(comps), Append(new_comps, comp), initial_slashes)
             ELSE IF new_comps # <<>>
             THEN NormComps(Tail(comps), SubSeq(new_comps, 1, Len(new_comps) - 1),
                            initial_slashes)
             ELSE NormComps(Tail(comps), new_comps, initial_slashes)

normpath(path) ==
    IF path = <<>> THEN <<".">>
    ELSE LET initial_slashes ==
                 IF ~startswith(path, <<"/">>) THEN 0
                 ELSE IF startswith(path, <<"/", "/">>) /\ ~startswith(path, <<"/", "/", "/">>)
                      THEN 2 ELSE 1
             joined == Join(NormComps(Split(path, "/"), <<>>, initial_slashes), "/")
             result == [i \in 1..initial_slashes |-> "/"] \o joined
         IN  IF result = <<>> THEN <<".">> ELSE result

normalize_path(p) == normpath(p)

\* str.rstrip("/")
RECURSIVE rstrip_sep(_)
rstrip_sep(s) ==
    IF s # <<>> /\ s[Len(s)] = "/" THEN rstrip_sep(SubSeq(s, 1, Len(s) - 1)) ELSE s

----------------------------------------------------------------------------
(* Check 3: the parsed module and the risk signals *)

HIGH_FAN_IN_THRESHOLD == 3
AST_TIMEOUT_MS == 500

\* ast.arguments, as far as _signature_key reads it
Arguments(args, vararg, kwarg, defaults, kwonlyargs, kw_defaults) ==
    [args |-> args, vararg |-> vararg, kwarg |-> kwarg, defaults |-> defaults,
     kwonlyargs |-> kwonlyargs, kw_defaults |-> kw_defaults]
NoArguments == Arguments(<<>>, FALSE, FALSE, 0, <<>>, 0)
\* def f(a) and def f(a, *args)
ArgsA == Arguments(<<"a">>, FALSE, FALSE, 0, <<>>, 0)
ArgsB == Arguments(<<"a">>, TRUE, FALSE, 0, <<>>, 0)

\* a statement node: its class, the fields the hook reads, its statement
\* list and its lineno attribute
Node(kind, name, args, module, body) ==
    [kind |-> kind, name |-> name, args |-> args, module |-> module, body |-> body,
     lineno |-> 0]
Pass == Node("Pass", "", NoArguments, <<>>, <<>>)
\* ast.Expr whose value is an ast.Constant: a docstring, a bare literal, "..."
ExprConstant == Node("ExprConstant", "", NoArguments, <<>>, <<>>)
\* ast.Expr whose value is a call of the name id
ExprCall(id) == Node("ExprCall", id, NoArguments, <<>>, <<>>)
\* import module / from module import ...; module = <<>> is "from . import x"
ImportFrom(module) == Node("ImportFrom", "", NoArguments, module, <<>>)
FunctionDef(name, args, body) == Node("FunctionDef", name, args, <<>>, body)
ClassDef(name, body) == Node("ClassDef", name, NoArguments, <<>>, body)

\* a source text: None, a text ast.parse rejects, or its statements
NoContent == [present |-> FALSE, parse_ok |-> FALSE, body |-> <<>>]
BadSource == [present |-> TRUE, parse_ok |-> FALSE, body |-> <<>>]
Source(body) == [present |-> TRUE, parse_ok |-> TRUE, body |-> body]

\* ast.parse gives every statement its line number
RECURSIVE Located(_, _)
Located(body, first) ==
    [i \in DOMAIN body |->
        [body[i] EXCEPT !.lineno = first + i,
                        !.body = Located(body[i].body, first + i)]]

\* _safe_parse: the tree, or None (ok = FALSE) on a SyntaxError
safe_parse(content) ==
    IF content.parse_ok THEN [ok |-> TRUE, body |-> Located(content.body, 0)]
    ELSE [ok |-> FALSE, body |-> <<>>]

\* _strip_cosmetic, lines 475-493: in every statement list, drop Pass nodes
\* and Expr nodes that wrap a Constant
RECURSIVE strip_cosmetic(_)
strip_cosmetic(body) ==
    IF body = <<>> THEN <<>>
    ELSE LET item == Head(body)
             rest == strip_cosmetic(Tail(body))
         IN  IF item.kind = "Pass" \/ item.kind = "ExprConstant" THEN rest
             ELSE <<[item EXCEPT !.body = strip_cosmetic(item.body)]>> \o rest

\* the dump without the arguments of a definition
RECURSIVE ast_dump_noargs(_)
ast_dump_noargs(body) ==
    [i \in DOMAIN body |->
        [kind |-> body[i].kind, name |-> body[i].name, args |-> NoArguments,
         module |-> body[i].module, body |-> ast_dump_noargs(body[i].body)]]

\* ast.dump(tree): the node classes and fields, without the attributes
RECURSIVE ast_dump(_)
ast_dump(body) ==
    [i \in DOMAIN body |->
        [kind |-> body[i].kind, name |-> body[i].name, args |-> body[i].args,
         module |-> body[i].module, body |-> ast_dump(body[i].body)]]

\* compute_mechanical_only; elapsed_ms is what time.monotonic() measured
compute_mechanical_only(base_content, head_content, elapsed_ms) ==
    IF ~base_content.present THEN FALSE
    ELSE LET base_tree == safe_parse(base_content)
             head_tree == safe_parse(head_content)
         IN  IF ~base_tree.ok \/ ~head_tree.ok THEN FALSE
             ELSE LET base_stripped == strip_cosmetic(base_tree.body)
                      head_stripped == strip_cosmetic(head_tree.body)
                  IN  IF ast_dump(base_stripped) = ast_dump(head_stripped)
                      THEN IF elapsed_ms > AST_TIMEOUT_MS THEN FALSE ELSE TRUE
                      ELSE IF elapsed_ms > AST_TIMEOUT_MS THEN FALSE
                      ELSE ast_dump(base_stripped) = ast_dump(head_stripped)

IsDef(node) == node.kind \in {"FunctionDef", "ClassDef"}

\* _extract_top_level_defs: name -> node over tree.body, the last one wins
extract_top_level_defs(body) ==
    LET names == {body[i].name : i \in {j \in DOMAIN body : IsDef(body[j])}}
    IN  [n \in names |->
            body[CHOOSE i \in DOMAIN body :
                    /\ IsDef(body[i]) /\ body[i].name = n
                    /\ \A j \in DOMAIN body :
                          (IsDef(body[j]) /\ body[j].name = n) => j <= i]]

\* _signature_key
signature_key(node) ==
    IF node.kind = "FunctionDef"
    THEN <<node.name>> \o node.args.args
            \o <<IF node.args.vararg THEN "*" ELSE "",
                 IF node.args.kwarg THEN "**" ELSE "",
                 ToString(node.args.defaults)>>
            \o node.args.kwonlyargs \o <<ToString(node.args.kw_defaults)>>
    ELSE IF node.kind = "ClassDef" THEN <<node.name>>
    ELSE <<>>

\* a pair that cannot be compared is reported as unchanged
compute_public_api_signature_changed_lax(base_content, head_content) ==
    IF ~base_content.present THEN TRUE
    ELSE LET base_tree == safe_parse(base_content)
             head_tree == safe_parse(head_content)
         IN  IF ~base_tree.ok \/ ~head_tree.ok THEN FALSE
             ELSE LET base_defs == extract_top_level_defs(base_tree.body)
                      head_defs == extract_top_level_defs(head_tree.body)
                  IN  IF DOMAIN base_defs # DOMAIN head_defs THEN TRUE
                      ELSE \E name \in DOMAIN base_defs :
                              signature_key(base_defs[name]) # signature_key(head_defs[name])

compute_public_api_signature_changed(base_content, head_content) ==
    IF ~base_content.present THEN TRUE
    ELSE LET base_tree == safe_parse(base_content)
             head_tree == safe_parse(head_content)
         IN  IF ~base_tree.ok \/ ~head_tree.ok THEN TRUE
             ELSE LET base_defs == extract_top_level_defs(base_tree.body)
                      head_defs == extract_top_level_defs(head_tree.body)
                  IN  IF DOMAIN base_defs # DOMAIN head_defs THEN TRUE
                      ELSE \E name \in DOMAIN base_defs :
                              signature_key(base_defs[name]) # signature_key(head_defs[name])

\* the identifiers ast.walk finds: the called names
RECURSIVE Identifiers(_)
Identifiers(body) ==
    IF body = <<>> THEN {}
    ELSE (IF Head(body).kind = "ExprCall" THEN {Head(body).name} ELSE {})
            \cup Identifiers(Head(body).body) \cup Identifiers(Tail(body))

compute_auth_pattern_touched(head_content, security_patterns) ==
    LET tree == safe_parse(head_content)
    IN  IF ~tree.ok THEN FALSE
        ELSE \E ident \in Identifiers(tree.body) : ident \in security_patterns

compute_invariant_referenced_file_modified(modified_filepath, state_records) ==
    LET norm_modified == normalize_path(modified_filepath)
    IN  \E r \in DOMAIN state_records :
           /\ state_records[r].invariants_touched # {}
           /\ \E d \in DOMAIN state_records[r].dependencies :
                 normalize_path(state_records[r].dependencies[d]) = norm_modified

\* the loops of compute_high_fan_in: count += 1 and break at the first
\* dependency of a record that is the modified path
RECURSIVE FanInCount(_, _)
FanInCount(state_records, norm_modified) ==
    IF state_records = <<>> THEN 0
    ELSE LET deps == Head(state_records).dependencies
         IN  (IF \E d \in DOMAIN deps : normalize_path(deps[d]) = norm_modified
              THEN 1 ELSE 0)
                + FanInCount(Tail(state_records), norm_modified)

\* the inner loop without its break: a record adds one per listing of the path
compute_high_fan_in_nobreak(modified_filepath, state_records) ==
    LET norm_modified == normalize_path(modified_filepath)
        listings(r) == {d \in DOMAIN state_records[r].dependencies :
                          normalize_path(state_records[r].dependencies[d]) = norm_modified}
        count[k \in 0..Len(state_records)] ==
            IF k = 0 THEN 0 ELSE count[k - 1] + Cardinality(listings(k))
    IN  count[Len(state_records)] >= HIGH_FAN_IN_THRESHOLD

compute_high_fan_in(modified_filepath, state_records) ==
    FanInCount(state_records, normalize_path(modified_filepath)) >= HIGH_FAN_IN_THRESHOLD

derive_ast_change_type(mechanical_only, public_api_signature_changed) ==
    IF mechanical_only THEN "mechanical"
    ELSE IF public_api_signature_changed THEN "structural"
    ELSE "behavioral"

RiskSignals(auth, pub_api, inv_ref, fan_in, change_type, mechanical_only) ==
    [touched_auth_or_permission_patterns |-> auth,
     public_api_signature_changed |-> pub_api,
     invariant_referenced_file_modified |-> inv_ref,
     high_fan_in_module_modified |-> fan_in,
     ast_change_type |-> change_type,
     mechanical_only |-> mechanical_only]

\* mechanical_only taken from the tree differ alone
build_risk_signals_raw(base_content, head_content, filepath, state_records, security_patterns, elapsed_ms) ==
    LET mech == compute_mechanical_only(base_content, head_content, elapsed_ms)
        pub_api == compute_public_api_signature_changed(base_content, head_content)
    IN  RiskSignals(compute_auth_pattern_touched(head_content, security_patterns),
                    pub_api,
                    compute_invariant_referenced_file_modified(filepath, state_records),
                    compute_high_fan_in(filepath, state_records),
                    derive_ast_change_type(mech, pub_api), mech)

build_risk_signals(base_content, head_content, filepath, state_records, security_patterns, elapsed_ms) ==
    LET mech == compute_mechanical_only(base_content, head_content, elapsed_ms)
        pub_api == compute_public_api_signature_changed(base_content, head_content)
        auth == compute_auth_pattern_touched(head_content, security_patterns)
        inv_ref == compute_invariant_referenced_file_modified(filepath, state_records)
        fan_in == compute_high_fan_in(filepath, state_records)
        change_type == derive_ast_change_type(mech, pub_api)
        mechanical_only == change_type = "mechanical" /\ ~auth /\ ~inv_ref /\ ~fan_in
    IN  RiskSignals(auth, pub_api, inv_ref, fan_in, change_type, mechanical_only)

----------------------------------------------------------------------------
(* Check 4: dependency scan *)

\* an Optional value: None or the value
None == <<>>
Some(x) == <<x>>

\* the characters of the paths, in code-point order
Alphabet ==
    <<".", "/", "_", "a", "b", "c", "d", "e", "f", "g", "h", "i", "j", "k", "l", "m",
      "n", "o", "p", "q", "r", "s", "t", "u", "v", "w", "x", "y", "z">>
Ord(c) == CHOOSE i \in DOMAIN Alphabet : Alphabet[i] = c

\* s < t for str
RECURSIVE StrLess(_, _)
StrLess(s, t) ==
    IF t = <<>> THEN FALSE
    ELSE IF s = <<>> THEN TRUE
    ELSE IF Head(s) = Head(t) THEN StrLess(Tail(s), Tail(t))
    ELSE Ord(Head(s)) < Ord(Head(t))

\* sorted(S) for a set of str
RECURSIVE sorted(_)
sorted(S) ==
    IF S = {} THEN <<>>
    ELSE LET least == CHOOSE x \in S : \A y \in S \ {x} : StrLess(x, y)
         IN  <<least>> \o sorted(S \ {least})

Range(s) == {s[i] : i \in DOMAIN s}

\* replace "." by os.sep
RECURSIVE replace_dots(_)
replace_dots(s) ==
    IF s = <<>> THEN <<>>
    ELSE <<IF Head(s) = "." THEN "/" ELSE Head(s)>> \o replace_dots(Tail(s))

\* extract_imports: the modules of the Import / ImportFrom nodes that ast.walk
\* finds; an ImportFrom without module is skipped
RECURSIVE ImportedModules(_)
ImportedModules(body) ==
    IF body = <<>> THEN <<>>
    ELSE (IF Head(body).kind = "ImportFrom" /\ Head(body).module # <<>>
          THEN <<Head(body).module>> ELSE <<>>)
            \o ImportedModules(Tail(body)) \o ImportedModules(Head(body).body)

extract_imports(head_content) ==
    LET tree == safe_parse(head_content)
    IN  IF ~tree.ok THEN <<>> ELSE ImportedModules(tree.body)

DotPy == <<".", "p", "y">>
InitPy == <<"_", "_", "i", "n", "i", "t", "_", "_", ".", "p", "y">>

\* resolve_to_repo_path; repo_files are the files below repo_root
resolve_to_repo_path(module_str, repo_files) ==
    LET rel == replace_dots(module_str)
    IN  IF normpath(rel \o DotPy) \in repo_files THEN Some(normpath(rel \o DotPy))
        ELSE IF normpath(rel \o <<"/">> \o InitPy) \in repo_files
        THEN Some(normpath(rel \o <<"/">> \o InitPy))
        ELSE None

RECURSIVE ResolveAll(_, _)
ResolveAll(raw_modules, repo_files) ==
    IF raw_modules = <<>> THEN <<>>
    ELSE resolve_to_repo_path(Head(raw_modules), repo_files)
            \o ResolveAll(Tail(raw_modules), repo_files)

scan_imports(head_content, repo_files) ==
    ResolveAll(extract_imports(head_content), repo_files)

\* scope_definitions.json as validate_dependencies reads it
NoScopeDefs == [present |-> FALSE, known_expected_cross_scope_imports |-> <<>>]
ScopeDefs(known) == [present |-> TRUE, known_expected_cross_scope_imports |-> known]

\* path_to_scope, lines 840-845: a later record of the same path overrides
path_to_scope(all_state_records) ==
    LET idx == {i \in DOMAIN all_state_records :
                    normalize_path(all_state_records[i].path) # <<>>}
        paths == {normalize_path(all_state_records[i].path) : i \in idx}
    IN  [p \in paths |->
            all_state_records[CHOOSE i \in idx :
                /\ normalize_path(all_state_records[i].path) = p
                /\ \A j \in idx :
                      normalize_path(all_state_records[j].path) = p => j <= i
            ].semantic_scope]

\* _is_known_expected, lines 855-865; an entry given as a dict stands for its
\* imported_path
is_known_expected(imp, known_expected) ==
    LET norm == normalize_path(imp)
    IN  \E e \in DOMAIN known_expected :
           LET entry_path == known_expected[e]
           IN  IF endswith(entry_path, <<"/">>)
               THEN startswith(norm, normalize_path(rstrip_sep(entry_path)))
               ELSE norm = normalize_path(entry_path)

DependencyScan(undeclared, stale, cross) ==
    [undeclared_imports |-> undeclared, stale_declared_deps |-> stale,
     cross_scope_undeclared |-> cross]

\* the declared dependencies compared as they are spelled
validate_dependencies_raw(scanned_imports, state_record, all_state_records, scope_definitions, agent_semantic_scope) ==
    LET scanned_set == {normalize_path(scanned_imports[i]) : i \in DOMAIN scanned_imports}
        deps == IF state_record # None THEN state_record[1].dependencies ELSE <<>>
        declared == {deps[i] : i \in DOMAIN deps}
        undeclared == IF state_record # None THEN sorted(scanned_set \ declared)
                      ELSE sorted(scanned_set)
        stale == IF state_record # None THEN sorted(declared \ scanned_set) ELSE <<>>
        scopes == path_to_scope(all_state_records)
        known_expected == IF scope_definitions.present
                          THEN scope_definitions.known_expected_cross_scope_imports
                          ELSE <<>>
        imp_scope(imp) == IF imp \in DOMAIN scopes THEN scopes[imp] ELSE ""
        cross(imp) == /\ imp_scope(imp) # ""
                      /\ imp_scope(imp) # agent_semantic_scope
                      /\ ~is_known_expected(imp, known_expected)
    IN  DependencyScan(IF state_record # None THEN undeclared ELSE <<>>, stale,
                       SelectSeq(undeclared, cross))

validate_dependencies(scanned_imports, state_record, all_state_records, scope_definitions, agent_semantic_scope) ==
    LET scanned_set == {normalize_path(scanned_imports[i]) : i \in DOMAIN scanned_imports}
        deps == IF state_record # None THEN state_record[1].dependencies ELSE <<>>
        declared == {normalize_path(deps[i]) : i \in DOMAIN deps}
        undeclared == IF state_record # None THEN sorted(scanned_set \ declared)
                      ELSE sorted(scanned_set)
        stale == IF state_record # None THEN sorted(declared \ scanned_set) ELSE <<>>
        scopes == path_to_scope(all_state_records)
        known_expected == IF scope_definitions.present
                          THEN scope_definitions.known_expected_cross_scope_imports
                          ELSE <<>>
        imp_scope(imp) == IF imp \in DOMAIN scopes THEN scopes[imp] ELSE ""
        cross(imp) == /\ imp_scope(imp) # ""
                      /\ imp_scope(imp) # agent_semantic_scope
                      /\ ~is_known_expected(imp, known_expected)
    IN  DependencyScan(IF state_record # None THEN undeclared ELSE <<>>, stale,
                       SelectSeq(undeclared, cross))

----------------------------------------------------------------------------
(* build_proposal *)

\* PROPOSAL_ID_FORMAT.format(date=..., agent_id=..., seq=queue_length + 1);
\* a built proposal has no "branch" key
\* the sequence number left out of the identifier
build_proposal_noseq(ctx, filepath, out_of_scope, cross_scope_flag, risk_signals, dependency_scan, queue_length) ==
    [proposal_id |-> PropId(Today, ctx.agent_id, 0),
     agent_id |-> ctx.agent_id, path |-> filepath,
     semantic_scope |-> ctx.semantic_scope, status |-> "pending",
     out_of_scope |-> out_of_scope, cross_scope_flag |-> cross_scope_flag,
     risk_signals |-> risk_signals, dependency_scan |-> dependency_scan,
     blocking_reasons |->
        IF dependency_scan.cross_scope_undeclared # <<>>
        THEN <<"cross_scope_undeclared_dependency">> ELSE <<>>,
     branch |-> ""]

build_proposal(ctx, filepath, out_of_scope, cross_scope_flag, risk_signals, dependency_scan, queue_length) ==
    [proposal_id |-> PropId(Today, ctx.agent_id, queue_length + 1),
     agent_id |-> ctx.agent_id, path |-> filepath,
     semantic_scope |-> ctx.semantic_scope, status |-> "pending",
     out_of_scope |-> out_of_scope, cross_scope_flag |-> cross_scope_flag,
     risk_signals |-> risk_signals, dependency_scan |-> dependency_scan,
     blocking_reasons |->
        IF dependency_scan.cross_scope_undeclared # <<>>
        THEN <<"cross_scope_undeclared_dependency">> ELSE <<>>,
     branch |-> ""]

----------------------------------------------------------------------------
(* The inputs of main() *)

\* hook_config.json merged with DEFAULT_HOOK_CONFIG; skl_mode defaults to "full"
DEFAULT_QUEUE_MAX == 15
HookConfigs ==
    {[skl_mode |-> "full", queue_max |-> n] : n \in 1..MaxQueueMaxCfg}
        \cup {[skl_mode |-> "phase_0", queue_max |-> DEFAULT_QUEUE_MAX]}
AgentIds == {"A1"}
Branches == {"main", "feat"}

StateDoc == <<[path |-> P_auth, semantic_scope |-> "auth",
               dependencies |-> <<P_ui>>, invariants_touched |-> {"inv1"}]>>
InvariantsDoc == [security_patterns |-> {"check_permission"}]

E1 == Entry(PropId(Today, "A1", 1), "pending", "main", "auth", P_auth)
E2 == Entry(PropId(Today, "A1", 2), "approved", "", "ui", P_ui)
InitEntries == {E1, E2}

InitDocs ==
    {[state |-> StateDoc, invariants |-> InvariantsDoc, queue |-> q] :
        q \in SeqsUpTo(InitEntries, MaxInitQueue)}

\* a knowledge.json that json.load rejects
CorruptData == <<<<"{", 0>>, <<"state", StateDoc>>>>

Contexts ==
    {[present |-> TRUE, agent_id |-> "A1", semantic_scope |-> "auth", file_scope |-> {}],
     [present |-> TRUE, agent_id |-> "A1", semantic_scope |-> "ui",
      file_scope |-> {P_auth}]}

ScopeEntries ==
    {NoScopeEntry,
     [present |-> TRUE, allowed_paths |-> {P_cfg},
      allowed_path_prefixes |-> {<<"a", "/">>},
      forbidden_path_prefixes |-> {<<"u", "/">>},
      defs_loaded |-> TRUE, known_expected |-> <<>>]}

\* the repository of the runs: the files below repo_root, and what
\* get_file_content_at_ref gives for a path at base_branch and at HEAD
RepoFiles == {P_auth, P_ui}

RepoBase(filepath) ==
    IF filepath = P_auth THEN Source(<<FunctionDef("f", ArgsA, <<Pass>>)>>)
    ELSE NoContent

RepoHead(filepath) ==
    IF filepath = P_auth
    THEN Source(<<ExprConstant, FunctionDef("f", ArgsA, <<Pass>>)>>)
    ELSE IF filepath = P_ui
    THEN Source(<<ImportFrom(<<"a", ".", "x">>),
                  FunctionDef("g", ArgsA, <<ExprCall("check_permission")>>)>>)
    ELSE NoContent

\* git diff --name-only lists the paths once each, in a fixed order
ModifiedFileLists == {SubSeq(FileOrder, 1, n) : n \in 0..MaxFiles}

R_unmet ==
    RFC("r_unmet.json", "RFC_1", "open", TRUE, E1.proposal_id,
        <<Criterion("AC_1", "passed"), Criterion("AC_2", "pending")>>, NoDeadline)
R_expired ==
    RFC("r_expired.json", "RFC_2", "open", FALSE, E1.proposal_id, <<>>,
        Deadline("Z", NowUTC - 1, 0))
R_naive ==
    RFC("r_naive.json", "RFC_3", "open", FALSE, NoId, <<>>,
        Deadline("naive", NowUTC - 1, 0))

MainRFCSets == {<<>>, <<R_unmet, R_expired>>, <<R_naive>>}

NoGout == [msg |-> NoMessage,
           r6 |-> [allow |-> TRUE, rfc_id |-> "", failing |-> <<>>, examined |-> 0],
           r7 |-> [outcome |-> "allow", rfc_id |-> "", raw_deadline |-> NoDeadline,
                   scope |-> "", examined |-> 0]]

EmptyDoc == [state |-> <<>>, invariants |-> <<>>, queue |-> <<>>]

\* no invocation is running side by side with another
NoInvocations == <<>>
NoFileSystem == [inodes |-> <<>>, path |-> 0, tmp |-> 0]

\* no function is being applied on its own
NoFin == <<>>
NoFout == <<>>

\* the variables of a run of main(), unused by a specification of functions
NoRun ==
    /\ cfg = [skl_mode |-> "full", queue_max |-> DEFAULT_QUEUE_MAX]
    /\ disk = NoFile
    /\ tmp = NoFile
    /\ exit_status = NoExit
    /\ exit_reason = "none"
    /\ disk0 = NoFile
    /\ agent_context = NoContext
    /\ scope_entry = NoScopeEntry
    /\ knowledge = EmptyDoc
    /\ queue0 = <<>>
    /\ rfcs = <<>>
    /\ cur_branch = NoBranch
    /\ modified_files = <<>>
    /\ diff_failed = FALSE
    /\ violations = <<>>
    /\ proposals = <<>>
    /\ trace = <<>>
    /\ queue_max = 0
    /\ gout = NoGout

----------------------------------------------------------------------------
(* main() *)

\* queue_max selection, lines 959-965
EffectiveQueueMax(c) ==
    IF c.skl_mode = "phase_0" THEN PHASE_0_QUEUE_MAX ELSE c.queue_max

Init ==
    /\ cfg \in HookConfigs
    /\ disk \in {File(Serialize(k)) : k \in {d \in InitDocs :
                    PendingCount(d.queue) <= EffectiveQueueMax(cfg)}}
                \cup {NoFile, File(CorruptData)}
    /\ tmp = NoFile
    /\ pc = "idle"
    /\ exit_status = NoExit
    /\ exit_reason = "none"
    /\ disk0 = disk
    /\ agent_context = NoContext
    /\ scope_entry = NoScopeEntry
    /\ knowledge = EmptyDoc
    /\ queue0 = <<>>
    /\ rfcs = <<>>
    /\ cur_branch = NoBranch
    /\ modified_files = <<>>
    /\ diff_failed = FALSE
    /\ violations = <<>>
    /\ proposals = <<>>
    /\ trace = <<>>
    /\ queue_max = 0
    /\ gout = NoGout
    /\ inv = NoInvocations
    /\ fs = NoFileSystem
    /\ fin = NoFin
    /\ fout = NoFout

\* sys.exit(status): the in-memory documents die with the process
Exit(status, reason) ==
    /\ pc' = "exit"
    /\ exit_status' = status
    /\ exit_reason' = reason

\* the startup "repairs" the knowledge store before giving up: an empty
\* document is put at knowledge_path
SetupFailure_reinit(reason) ==
    /\ Exit(1, reason)
    /\ agent_context' = NoContext
    /\ scope_entry' = NoScopeEntry
    /\ knowledge' = EmptyDoc
    /\ queue0' = <<>>
    /\ rfcs' = <<>>
    /\ disk' = File(Serialize(EmptyDoc))
    /\ UNCHANGED tmp

\* startup when a document is missing: exit 1, nothing else touched
SetupFailure(reason) ==
    /\ Exit(1, reason)
    /\ agent_context' = NoContext
    /\ scope_entry' = NoScopeEntry
    /\ knowledge' = EmptyDoc
    /\ queue0' = <<>>
    /\ rfcs' = <<>>
    /\ UNCHANGED <<disk, tmp>>

\* startup, lines 946-1016, for one environment of the process
Startup(repo_ok, agent_id, ctx, entry, rfc_files) ==
    /\ pc \in {"idle", "exit"}
    /\ disk0' = disk
    /\ queue_max' = EffectiveQueueMax(cfg)
    /\ cur_branch' = NoBranch
    /\ modified_files' = <<>>
    /\ diff_failed' = FALSE
    /\ violations' = <<>>
    /\ proposals' = <<>>
    /\ trace' = <<>>
    /\ gout' = NoGout
    /\ UNCHANGED <<inv, fs, fin, fout, cfg>>
    /\ IF ~repo_ok THEN SetupFailure("setup_repo_root")
       ELSE IF agent_id = "" THEN SetupFailure("setup_agent_id")
       ELSE IF ~ctx.present THEN SetupFailure("setup_agent_context")
       ELSE IF ~read_json_file(disk).ok THEN SetupFailure("setup_knowledge")
       ELSE /\ pc' = "check1"
            /\ exit_status' = NoExit
            /\ exit_reason' = "none"
            /\ agent_context' = ctx
            /\ scope_entry' = entry
            /\ knowledge' = read_json_file(disk).doc
            /\ queue0' = read_json_file(disk).doc.queue
            /\ rfcs' = rfc_files
            /\ UNCHANGED <<disk, tmp>>

\* the environments of a run: the first missing piece ends the startup, so
\* the pieces after it are never read
StartRun ==
    \/ Startup(FALSE, "", NoContext, NoScopeEntry, <<>>)
    \/ Startup(TRUE, "", NoContext, NoScopeEntry, <<>>)
    \/ \E agent_id \in AgentIds : Startup(TRUE, agent_id, NoContext, NoScopeEntry, <<>>)
    \/ \E ctx \in Contexts, entry \in ScopeEntries, rfc_files \in MainRFCSets :
          Startup(TRUE, ctx.agent_id, ctx, entry, rfc_files)

\* a failed git diff does not empty the change set
Check1_keepfiles ==
    /\ pc = "check1"
    /\ \E failed \in BOOLEAN, files \in ModifiedFileLists :
          /\ Len(knowledge.queue) + Len(files) <= MaxQueueLen
          /\ diff_failed' = failed
          /\ modified_files' = files
          /\ violations' = check_file_scope(files, agent_context.file_scope)
    /\ trace' = Append(trace, "check1")
    /\ pc' = "check2"
    /\ UNCHANGED <<inv, fs, fin, fout, cfg, disk, tmp, exit_status, exit_reason, disk0, agent_context,
                   scope_entry, knowledge, queue0, rfcs, cur_branch, proposals,
                   queue_max, gout>>

\* Check 1, lines 1018-1037: get_modified_files (None -> []) and check_file_scope
Check1 ==
    /\ pc = "check1"
    /\ \E failed \in BOOLEAN, files \in ModifiedFileLists :
          /\ failed => files = <<>>
          /\ Len(knowledge.queue) + Len(files) <= MaxQueueLen
          /\ diff_failed' = failed
          /\ modified_files' = files
          /\ violations' = check_file_scope(files, agent_context.file_scope)
    /\ trace' = Append(trace, "check1")
    /\ pc' = "check2"
    /\ UNCHANGED <<inv, fs, fin, fout, cfg, disk, tmp, exit_status, exit_reason, disk0, agent_context,
                   scope_entry, knowledge, queue0, rfcs, cur_branch, proposals,
                   queue_max, gout>>

\* the mode test left out: Check 2 runs in every mode
Check2_anymode ==
    /\ pc = "check2"
    /\ violations' = check_semantic_scope(violations, scope_entry)
    /\ trace' = Append(trace, "check2")
    /\ pc' = "check5"
    /\ UNCHANGED <<inv, fs, fin, fout, cfg, disk, tmp, exit_status, exit_reason, disk0, agent_context,
                   scope_entry, knowledge, queue0, rfcs, cur_branch, modified_files,
                   diff_failed, proposals, queue_max, gout>>

\* Check 2, lines 1039-1050: only when SKL_MODE == "full"
Check2 ==
    /\ pc = "check2"
    /\ IF cfg.skl_mode = "full"
       THEN /\ violations' = check_semantic_scope(violations, scope_entry)
            /\ trace' = Append(trace, "check2")
       ELSE UNCHANGED <<violations, trace>>
    /\ pc' = "check5"
    /\ UNCHANGED <<inv, fs, fin, fout, cfg, disk, tmp, exit_status, exit_reason, disk0, agent_context,
                   scope_entry, knowledge, queue0, rfcs, cur_branch, modified_files,
                   diff_failed, proposals, queue_max, gout>>

\* the sys.exit(1) after print(queue_error) left out
Check5_noexit ==
    /\ pc = "check5"
    /\ gout' = [gout EXCEPT !.msg = check_queue_budget(knowledge, queue_max)]
    /\ pc' = "check6"
    /\ trace' = Append(trace, "check5")
    /\ UNCHANGED <<inv, fs, fin, fout, cfg, disk, tmp, exit_status, exit_reason, disk0, agent_context,
                   scope_entry, knowledge, queue0, rfcs, cur_branch, modified_files,
                   diff_failed, violations, proposals, queue_max>>

\* Check 5, lines 1052-1056
Check5 ==
    /\ pc = "check5"
    /\ LET queue_error == check_queue_budget(knowledge, queue_max)
       IN  /\ gout' = [gout EXCEPT !.msg = queue_error]
           /\ IF queue_error # NoMessage
              THEN Exit(1, "gate_queue")
              ELSE pc' = "check6" /\ UNCHANGED <<exit_status, exit_reason>>
    /\ trace' = Append(trace, "check5")
    /\ UNCHANGED <<inv, fs, fin, fout, cfg, disk, tmp, disk0, agent_context, scope_entry, knowledge,
                   queue0, rfcs, cur_branch, modified_files, diff_failed, violations,
                   proposals, queue_max>>

\* Check 6, lines 1057-1078: only when SKL_MODE == "full" and git rev-parse
\* gave the current branch
Check6 ==
    /\ pc = "check6"
    /\ IF cfg.skl_mode = "full"
       THEN \E branch \in Branches \cup {NoBranch} :
              /\ cur_branch' = branch
              /\ IF branch = NoBranch
                 THEN /\ pc' = "check7"
                      /\ UNCHANGED <<exit_status, exit_reason, gout, trace>>
                 ELSE LET r == check_acceptance_criteria(knowledge, branch, rfcs)
                      IN  /\ gout' = [gout EXCEPT !.r6 = r]
                          /\ trace' = Append(trace, "check6")
                          /\ IF ~r.allow
                             THEN Exit(1, "gate_acceptance")
                             ELSE pc' = "check7" /\ UNCHANGED <<exit_status, exit_reason>>
       ELSE /\ pc' = "check7"
            /\ UNCHANGED <<cur_branch, exit_status, exit_reason, gout, trace>>
    /\ UNCHANGED <<inv, fs, fin, fout, cfg, disk, tmp, disk0, agent_context, scope_entry, knowledge,
                   queue0, rfcs, modified_files, diff_failed, violations, proposals,
                   queue_max>>

\* Check 7, lines 1080-1084: only when SKL_MODE == "full"; an exception
\* that escapes check_rfc_scope_pause ends the process with status 1
Check7 ==
    /\ pc = "check7"
    /\ IF cfg.skl_mode = "full"
       THEN LET r == check_rfc_scope_pause(knowledge, agent_context, rfcs, NowUTC)
            IN  /\ gout' = [gout EXCEPT !.r7 = r]
                /\ trace' = Append(trace, "check7")
                /\ IF r.outcome = "block" THEN Exit(1, "gate_scope_pause")
                   ELSE IF r.outcome = "raise" THEN Exit(1, "exception")
                   ELSE pc' = "perfile" /\ UNCHANGED <<exit_status, exit_reason>>
       ELSE /\ pc' = "perfile"
            /\ UNCHANGED <<exit_status, exit_reason, gout, trace>>
    /\ UNCHANGED <<inv, fs, fin, fout, cfg, disk, tmp, disk0, agent_context, scope_entry, knowledge,
                   queue0, rfcs, cur_branch, modified_files, diff_failed, violations,
                   proposals, queue_max>>

\* state_by_path, lines 1089-1093, looked up for one path
state_by_path(state_records, norm_path) ==
    LET hits == {i \in DOMAIN state_records :
                    normalize_path(state_records[i].path) = norm_path}
    IN  IF hits = {} THEN None
        ELSE Some(state_records[CHOOSE i \in hits : \A j \in hits : j <= i])

\* Check 3 of the per-file loop, lines 1108-1126: the contents are read and
\* compared for Python files only; any other file is handed to
\* build_risk_signals with no base and the empty head
check3_risk_signals(filepath, base_content, head_at_ref, state_records, security_patterns, elapsed_ms) ==
    LET is_py == endswith(filepath, DotPy)
        head_content == IF head_at_ref.present THEN head_at_ref ELSE Source(<<>>)
    IN  IF is_py
        THEN build_risk_signals(base_content, head_content, filepath, state_records,
                                security_patterns, elapsed_ms)
        ELSE build_risk_signals(NoContent, Source(<<>>), filepath, state_records,
                                security_patterns, elapsed_ms)

\* the body of the per-file loop, lines 1103-1139: Check 3, Check 4 and
\* build_proposal for one file
per_file(ctx, entry, k, filepath, viol, elapsed_ms, queue_length) ==
    LET is_py == endswith(filepath, DotPy)
        base_content == RepoBase(filepath)
        head_content == IF RepoHead(filepath).present THEN RepoHead(filepath)
                        ELSE Source(<<>>)
        risk_signals == check3_risk_signals(filepath, base_content, RepoHead(filepath),
                                            k.state, k.invariants.security_patterns,
                                            elapsed_ms)
        scanned == IF is_py /\ head_content # Source(<<>>)
                   THEN scan_imports(head_content, RepoFiles) ELSE <<>>
        state_rec == state_by_path(k.state, normalize_path(filepath))
        scope_defs == IF entry.defs_loaded THEN ScopeDefs(entry.known_expected)
                      ELSE NoScopeDefs
        dep_scan == validate_dependencies(scanned, state_rec, k.state, scope_defs,
                                          ctx.semantic_scope)
    IN  build_proposal(ctx, filepath, viol.out_of_scope, viol.cross_scope_flag,
                       risk_signals, dep_scan, queue_length)

\* a file with blocking_reasons ends the run with status 1
PerFile_blocking ==
    /\ pc = "perfile"
    /\ Len(proposals) < Len(modified_files)
    /\ \E elapsed_ms \in {AST_TIMEOUT_MS, AST_TIMEOUT_MS + 1} :
          LET i == Len(proposals) + 1
              queue_length == Len(queue0)
              proposal == per_file(agent_context, scope_entry, knowledge,
                                   modified_files[i], violations[i], elapsed_ms,
                                   queue_length + Len(proposals))
          IN  /\ proposals' = Append(proposals, proposal)
              /\ IF proposal.blocking_reasons # <<>>
                 THEN Exit(1, "blocked")
                 ELSE UNCHANGED <<pc, exit_status, exit_reason>>
    /\ trace' = Append(trace, "perfile")
    /\ UNCHANGED <<inv, fs, fin, fout, cfg, disk, tmp, disk0, agent_context,
                   scope_entry, knowledge, queue0, rfcs, cur_branch, modified_files,
                   diff_failed, violations, queue_max, gout>>

\* one iteration of the per-file loop, lines 1103-1145
PerFile ==
    /\ pc = "perfile"
    /\ Len(proposals) < Len(modified_files)
    /\ \E elapsed_ms \in {AST_TIMEOUT_MS, AST_TIMEOUT_MS + 1} :
          LET i == Len(proposals) + 1
              queue_length == Len(queue0)
          IN  proposals' = Append(proposals,
                 per_file(agent_context, scope_entry, knowledge, modified_files[i],
                          violations[i], elapsed_ms, queue_length + Len(proposals)))
    /\ trace' = Append(trace, "perfile")
    /\ UNCHANGED <<inv, fs, fin, fout, cfg, disk, tmp, pc, exit_status, exit_reason, disk0, agent_context,
                   scope_entry, knowledge, queue0, rfcs, cur_branch, modified_files,
                   diff_failed, violations, queue_max, gout>>

\* knowledge["queue"] = proposals: the loaded queue is replaced, not extended
LoopDone_replace ==
    /\ pc = "perfile"
    /\ Len(proposals) = Len(modified_files)
    /\ IF proposals # <<>>
       THEN /\ knowledge' = [knowledge EXCEPT !.queue = proposals]
            /\ pc' = "write_open"
       ELSE /\ pc' = "summary"
            /\ UNCHANGED knowledge
    /\ UNCHANGED <<inv, fs, fin, fout, cfg, disk, tmp, exit_status, exit_reason, disk0, agent_context,
                   scope_entry, queue0, rfcs, cur_branch, modified_files, diff_failed,
                   violations, proposals, trace, queue_max, gout>>

\* lines 1147-1150: the loop is over; with proposals, extend the queue and
\* enter atomic_write_knowledge
LoopDone ==
    /\ pc = "perfile"
    /\ Len(proposals) = Len(modified_files)
    /\ IF proposals # <<>>
       THEN /\ knowledge' = [knowledge EXCEPT !.queue = knowledge.queue \o proposals]
            /\ pc' = "write_open"
       ELSE /\ pc' = "summary"
            /\ UNCHANGED knowledge
    /\ UNCHANGED <<inv, fs, fin, fout, cfg, disk, tmp, exit_status, exit_reason, disk0, agent_context,
                   scope_entry, queue0, rfcs, cur_branch, modified_files, diff_failed,
                   violations, proposals, trace, queue_max, gout>>

\* open(knowledge_path, "w"): the document itself is truncated and rewritten
WriteOpen_inplace ==
    /\ pc = "write_open"
    /\ tmp' = File(<<>>)
    /\ disk' = File(<<>>)
    /\ pc' = "write_data"
    /\ trace' = Append(trace, "write")
    /\ UNCHANGED <<inv, fs, fin, fout, cfg, exit_status, exit_reason, disk0, agent_context,
                   scope_entry, knowledge, queue0, rfcs, cur_branch, modified_files,
                   diff_failed, violations, proposals, queue_max, gout>>

\* atomic_write_knowledge, line 935: open(tmp_path, "w") creates or truncates
WriteOpen ==
    /\ pc = "write_open"
    /\ tmp' = File(<<>>)
    /\ pc' = "write_data"
    /\ trace' = Append(trace, "write")
    /\ UNCHANGED <<inv, fs, fin, fout, cfg, disk, exit_status, exit_reason, disk0, agent_context,
                   scope_entry, knowledge, queue0, rfcs, cur_branch, modified_files,
                   diff_failed, violations, proposals, queue_max, gout>>

\* lines 936-937: json.dump writes the document piece by piece into tmp_path
WriteChunk ==
    /\ pc = "write_data"
    /\ LET data == Serialize(knowledge)
       IN  /\ Len(tmp.data) < Len(data)
           /\ tmp' = File(Append(tmp.data, data[Len(tmp.data) + 1]))
           /\ pc' = IF Len(tmp.data) + 1 = Len(data) THEN "write_replace" ELSE "write_data"
    /\ UNCHANGED <<inv, fs, fin, fout, cfg, disk, exit_status, exit_reason, disk0, agent_context,
                   scope_entry, knowledge, queue0, rfcs, cur_branch, modified_files,
                   diff_failed, violations, proposals, trace, queue_max, gout>>

\* line 938: os.replace(tmp_path, knowledge_path)
WriteReplace ==
    /\ pc = "write_replace"
    /\ disk' = tmp
    /\ tmp' = NoFile
    /\ pc' = "summary"
    /\ UNCHANGED <<inv, fs, fin, fout, cfg, exit_status, exit_reason, disk0, agent_context, scope_entry,
                   knowledge, queue0, rfcs, cur_branch, modified_files, diff_failed,
                   violations, proposals, trace, queue_max, gout>>

WritePcs == {"write_open", "write_data", "write_replace"}

\* an OSError inside atomic_write_knowledge is answered by starting the
\* write over instead of exiting
WriteFail_retry ==
    /\ pc \in WritePcs
    /\ pc' = "write_data"
    /\ tmp' = File(<<>>)
    /\ UNCHANGED <<inv, fs, fin, fout, cfg, disk, exit_status, exit_reason, disk0, agent_context,
                   scope_entry, knowledge, queue0, rfcs, cur_branch, modified_files,
                   diff_failed, violations, proposals, trace, queue_max, gout>>

\* lines 939-941: an OSError from open, write or replace -> sys.exit(1)
WriteFail ==
    /\ pc \in WritePcs
    /\ Exit(1, "write_failed")
    /\ UNCHANGED <<inv, fs, fin, fout, cfg, disk, tmp, disk0, agent_context, scope_entry, knowledge,
                   queue0, rfcs, cur_branch, modified_files, diff_failed, violations,
                   proposals, trace, queue_max, gout>>

\* the process is killed while it is inside atomic_write_knowledge
Crash ==
    /\ pc \in WritePcs
    /\ Exit(137, "killed")
    /\ UNCHANGED <<inv, fs, fin, fout, cfg, disk, tmp, disk0, agent_context, scope_entry, knowledge,
                   queue0, rfcs, cur_branch, modified_files, diff_failed, violations,
                   proposals, trace, queue_max, gout>>

\* lines 1153-1167: summary line and sys.exit(0)
Summary ==
    /\ pc = "summary"
    /\ Exit(0, "ok")
    /\ UNCHANGED <<inv, fs, fin, fout, cfg, disk, tmp, disk0, agent_context, scope_entry, knowledge,
                   queue0, rfcs, cur_branch, modified_files, diff_failed, violations,
                   proposals, trace, queue_max, gout>>

Next ==
    \/ StartRun
    \/ Check1
    \/ Check2
    \/ Check5
    \/ Check6
    \/ Check7
    \/ PerFile
    \/ LoopDone
    \/ WriteOpen
    \/ WriteChunk
    \/ WriteReplace
    \/ WriteFail
    \/ Crash
    \/ Summary

Spec == Init /\ [][Next]_vars

----------------------------------------------------------------------------
(* Runs of one agent on one date with a reviewer at the queue: SpecReview *)

ReviewContext ==
    [present |-> TRUE, agent_id |-> "A1", semantic_scope |-> "auth", file_scope |-> {}]

\* the runs start from a queue that no proposal has entered yet
InitReview ==
    /\ Init
    /\ disk = File(Serialize([state |-> StateDoc, invariants |-> InvariantsDoc,
                              queue |-> <<>>]))

StartReviewed == Startup(TRUE, ReviewContext.agent_id, ReviewContext, NoScopeEntry, <<>>)

RemoveAt(q, i) == SubSeq(q, 1, i - 1) \o SubSeq(q, i + 1, Len(q))

\* between two runs the reviewer rewrites knowledge.json: one queue entry
\* is removed, or one pending entry is approved
Reviewer ==
    /\ pc \in {"idle", "exit"}
    /\ read_json_file(disk).ok
    /\ LET doc == read_json_file(disk).doc
       IN  \E i \in DOMAIN doc.queue :
              \/ disk' = File(Serialize([doc EXCEPT !.queue = RemoveAt(doc.queue, i)]))
              \/ /\ doc.queue[i].status = "pending"
                 /\ disk' = File(Serialize([doc EXCEPT !.queue[i].status = "approved"]))
    /\ UNCHANGED <<inv, fs, fin, fout, cfg, tmp, pc, exit_status, exit_reason, disk0,
                   agent_context, scope_entry, knowledge, queue0, rfcs, cur_branch,
                   modified_files, diff_failed, violations, proposals, trace,
                   queue_max, gout>>

NextReview ==
    \/ StartReviewed
    \/ Check1
    \/ Check2
    \/ Check5
    \/ Check6
    \/ Check7
    \/ PerFile
    \/ LoopDone
    \/ WriteOpen
    \/ WriteChunk
    \/ WriteReplace
    \/ Summary
    \/ Reviewer

SpecReview == InitReview /\ [][NextReview]_vars

\* one invocation of the engine: the process is started once and is not
\* started again after its exit
StartOnce == pc = "idle" /\ StartRun

NextOnce ==
    \/ StartOnce
    \/ Check1
    \/ Check2
    \/ Check5
    \/ Check6
    \/ Check7
    \/ PerFile
    \/ LoopDone
    \/ WriteOpen
    \/ WriteChunk
    \/ WriteReplace
    \/ WriteFail
    \/ Crash
    \/ Summary

\* the steps of a run other than the per-file iteration
StraightLine ==
    \/ StartOnce
    \/ Check1
    \/ Check2
    \/ Check5
    \/ Check6
    \/ Check7
    \/ LoopDone
    \/ WriteOpen
    \/ WriteChunk
    \/ WriteReplace
    \/ WriteFail
    \/ Summary

\* one iteration of the per-file loop is performed (a PerFile step)
PerFileStep ==
    /\ pc = "perfile"
    /\ Len(proposals) < Len(modified_files)
    /\ trace' = Append(trace, "perfile")

\* main() is synchronous single-threaded code without waits: as long as the
\* process has a next statement, one is executed
SpecOnce ==
    Init /\ [][NextOnce]_vars /\ WF_vars(StraightLine) /\ WF_trace(PerFileStep)

----------------------------------------------------------------------------
(* Two invocations of the engine on one knowledge_path: SpecConc *)

\* Each invocation is a process of its own with its own memory; the two
\* share the directory: knowledge_path, and the one temporary path
\* knowledge_path + ".tmp". A file is an inode; a path names an inode;
\* open(path, "w") truncates the inode the path names (or creates one), and
\* each open file has its own write offset.
Invocations == {1, 2}

ConcContext(p) ==
    [present |-> TRUE, agent_id |-> IF p = 1 THEN "A1" ELSE "A2",
     semantic_scope |-> "auth", file_scope |-> {}]

\* what git diff lists for the push of invocation p
ConcFiles(p) == IF p = 1 THEN <<P_ui>> ELSE <<P_auth>>

IdleInvocation ==
    [pc |-> "idle", knowledge |-> EmptyDoc, loaded |-> <<>>, proposals |-> <<>>,
     exit_status |-> NoExit, exit_reason |-> "none", fd |-> 0, off |-> 0]

\* bytes never written, left behind a write beyond the end of a file
Hole == <<"nul", 0>>

InitConc ==
    /\ NoRun
    /\ pc = "conc"
    /\ fin = NoFin
    /\ fout = NoFout
    /\ inv = [p \in Invocations |-> IdleInvocation]
    /\ \E q \in {<<>>, <<E1>>} :
          fs = [inodes |-> <<Serialize([state |-> StateDoc, invariants |-> InvariantsDoc,
                                        queue |-> q])>>,
                path |-> 1, tmp |-> 0]

ConcUnchanged ==
    UNCHANGED <<cfg, disk, tmp, pc, exit_status, exit_reason, disk0, agent_context,
                scope_entry, knowledge, queue0, rfcs, cur_branch, modified_files,
                diff_failed, violations, proposals, trace, queue_max, gout, fin, fout>>

ExitInvocation(p, status, reason) ==
    inv' = [inv EXCEPT ![p].pc = "exit", ![p].exit_status = status,
                       ![p].exit_reason = reason]

\* lines 988-995: the knowledge document is read from knowledge_path
LoadKnowledge(p) ==
    /\ inv[p].pc = "idle"
    /\ LET r == read_json_file(File(fs.inodes[fs.path]))
       IN  IF ~r.ok THEN ExitInvocation(p, 1, "setup_knowledge")
           ELSE inv' = [inv EXCEPT ![p].pc = "analyse", ![p].knowledge = r.doc,
                                   ![p].loaded = r.doc.queue]
    /\ UNCHANGED fs
    /\ ConcUnchanged

\* lines 1018-1150 in memory: Checks 1 and 2, the gates (no RFC is open), the
\* per-file loop, and the queue extended by the proposals
Analyse(p) ==
    /\ inv[p].pc = "analyse"
    /\ LET k == inv[p].knowledge
           ctx == ConcContext(p)
           files == ConcFiles(p)
           viols == check_semantic_scope(check_file_scope(files, ctx.file_scope),
                                         NoScopeEntry)
           built == [i \in DOMAIN files |->
                        per_file(ctx, NoScopeEntry, k, files[i], viols[i], 0,
                                 Len(k.queue) + i - 1)]
       IN  IF check_queue_budget(k, EffectiveQueueMax(cfg)) # NoMessage
           THEN ExitInvocation(p, 1, "gate_queue")
           ELSE IF ~check_acceptance_criteria(k, NoBranch, <<>>).allow
           THEN ExitInvocation(p, 1, "gate_acceptance")
           ELSE IF check_rfc_scope_pause(k, ctx, <<>>, NowUTC).outcome # "allow"
           THEN ExitInvocation(p, 1, "gate_scope_pause")
           ELSE inv' = [inv EXCEPT ![p].pc = "write_open", ![p].proposals = built,
                                   ![p].knowledge.queue = k.queue \o built]
    /\ UNCHANGED fs
    /\ ConcUnchanged

\* before the write the document is read again and the proposals are
\* appended to the queue found there
OpenTmp_reload(p) ==
    /\ inv[p].pc = "write_open"
    /\ LET n == IF fs.tmp = 0 THEN Len(fs.inodes) + 1 ELSE fs.tmp
           now == read_json_file(File(fs.inodes[fs.path])).doc
       IN  /\ fs' = IF fs.tmp = 0
                    THEN [fs EXCEPT !.inodes = Append(fs.inodes, <<>>), !.tmp = n]
                    ELSE [fs EXCEPT !.inodes[n] = <<>>]
           /\ inv' = [inv EXCEPT ![p].pc = "write_data", ![p].fd = n, ![p].off = 0,
                                 ![p].knowledge.queue = now.queue \o inv[p].proposals]
    /\ ConcUnchanged

\* lines 933-935: open(knowledge_path + ".tmp", "w") creates the file or
\* truncates the one that is there
OpenTmp(p) ==
    /\ inv[p].pc = "write_open"
    /\ LET n == IF fs.tmp = 0 THEN Len(fs.inodes) + 1 ELSE fs.tmp
       IN  /\ fs' = IF fs.tmp = 0
                    THEN [fs EXCEPT !.inodes = Append(fs.inodes, <<>>), !.tmp = n]
                    ELSE [fs EXCEPT !.inodes[n] = <<>>]
           /\ inv' = [inv EXCEPT ![p].pc = "write_data", ![p].fd = n, ![p].off = 0]
    /\ ConcUnchanged

\* the file after one more piece is written at offset off
WriteAt(content, off, piece) ==
    LET padded == IF Len(content) < off
                  THEN content \o [i \in 1..(off - Len(content)) |-> Hole]
                  ELSE content
    IN  IF off + 1 <= Len(padded) THEN [padded EXCEPT ![off + 1] = piece]
        ELSE Append(padded, piece)

\* lines 936-937: json.dump and write("\n") reach the open file piece by
\* piece, each at the offset of this invocation's file object
WriteTmp(p) ==
    /\ inv[p].pc = "write_data"
    /\ LET data == Serialize(inv[p].knowledge)
           off == inv[p].off
       IN  /\ fs' = [fs EXCEPT !.inodes[inv[p].fd] = WriteAt(@, off, data[off + 1])]
           /\ inv' = [inv EXCEPT ![p].off = off + 1,
                                 ![p].pc = IF off + 1 = Len(data) THEN "write_replace"
                                           ELSE "write_data"]
    /\ ConcUnchanged

\* lines 938-941 and 1153-1167: os.replace(tmp_path, knowledge_path), then the
\* summary and sys.exit(0); without a file at tmp_path os.replace raises
\* FileNotFoundError, an OSError: sys.exit(1)
ReplaceTmp(p) ==
    /\ inv[p].pc = "write_replace"
    /\ IF fs.tmp = 0
       THEN /\ ExitInvocation(p, 1, "write_failed")
            /\ UNCHANGED fs
       ELSE /\ fs' = [fs EXCEPT !.path = fs.tmp, !.tmp = 0]
            /\ ExitInvocation(p, 0, "ok")
    /\ ConcUnchanged

NextConc ==
    \/ \E p \in Invocations : LoadKnowledge(p)
    \/ \E p \in Invocations : Analyse(p)
    \/ \E p \in Invocations : OpenTmp(p)
    \/ \E p \in Invocations : WriteTmp(p)
    \/ \E p \in Invocations : ReplaceTmp(p)

SpecConc == InitConc /\ [][NextConc]_vars

TypeOK ==
    /\ pc \in {"idle", "check1", "check2", "check5", "check6", "check7", "perfile",
               "write_open", "write_data", "write_replace", "summary", "exit",
               "gates", "g5", "g6", "g7", "risk", "r_ast", "r_fan", "r_signals",
               "scope", "s1", "s2", "deps", "d_val", "d_known", "check3", "r_check3",
               "config", "c_done", "conc"}
    /\ Len(knowledge.queue) <= MaxQueueLen

----------------------------------------------------------------------------
(* The gate functions on their own: SpecGates *)

QA == Entry(PropId(Today, "A1", 1), "pending", "main", "auth", P_auth)
QB == Entry(PropId(Today, "A1", 2), "approved", "", "ui", P_ui)
QC == Entry(PropId(Today, "A1", 3), "pending", "feat", "auth", P_doc)
\* a second entry with the proposal_id of QA
QA2 == Entry(PropId(Today, "A1", 1), "pending", "feat", "ui", P_auth)
DanglingId == PropId(Today, "A1", 9)

GateQueues == {<<QA, QB, QC>>, <<QA, QA2, QB>>, <<>>}

Unmet == <<Criterion("AC_1", "passed"), Criterion("AC_2", "pending")>>
G6(id, status, flag, triggering, criteria) ==
    RFC("g6.json", id, status, flag, triggering, criteria, NoDeadline)
G7(status, triggering, deadline) ==
    RFC("g7.json", "RFC_B", status, FALSE, triggering, <<>>, deadline)
Past == Deadline("Z", NowUTC - 1, 0)

RFCPool ==
    {G6("RFC_A", "open", TRUE, QA.proposal_id, Unmet),
     G6("RFC_A", "resolved", TRUE, QA.proposal_id, Unmet),
     G6("RFC_A", "open", FALSE, QA.proposal_id, Unmet),
     G6("RFC_A", "open", TRUE, NoId, Unmet),
     G6("RFC_A", "open", TRUE, DanglingId, Unmet),
     G6("RFC_A", "open", TRUE, QB.proposal_id, Unmet),
     G6("RFC_C", "open", TRUE, QC.proposal_id, Unmet),
     G6("RFC_A", "open", TRUE, QA.proposal_id, <<Criterion("AC_1", "passed")>>),
     G6("RFC_A", "open", TRUE, QA.proposal_id, <<>>),
     G6("", "open", TRUE, QA.proposal_id,
        <<Criterion("AC_3", "failed"), Criterion("AC_4", "pending")>>),
     [G6("RFC_A", "open", TRUE, QA.proposal_id, Unmet) EXCEPT !.parse_ok = FALSE],
     G7("open", QA.proposal_id, Past),
     G7("resolved", QA.proposal_id, Past),
     G7("open", QA.proposal_id, NoDeadline),
     G7("open", QA.proposal_id, Deadline("number", 0, 0)),
     G7("open", QA.proposal_id, Deadline("garbage", 0, 0)),
     G7("open", QA.proposal_id, Deadline("Z", NowUTC, 0)),
     G7("open", QA.proposal_id, Deadline("Z", NowUTC + 1, 0)),
     G7("open", QA.proposal_id, Deadline("offset", NowUTC + 1, 2)),
     G7("open", QA.proposal_id, Deadline("offset", NowUTC - 1, -2)),
     G7("open", QA.proposal_id, Deadline("naive", NowUTC - 1, 0)),
     G7("open", NoId, Past),
     G7("open", DanglingId, Past),
     G7("open", QB.proposal_id, Past)}

GateDoc(q) == [state |-> StateDoc, invariants |-> InvariantsDoc, queue |-> q]
GateContext(scope) ==
    [present |-> TRUE, agent_id |-> "A1", semantic_scope |-> scope, file_scope |-> {}]

InitGates ==
    /\ cfg = [skl_mode |-> "full", queue_max |-> DEFAULT_QUEUE_MAX]
    /\ disk = NoFile
    /\ tmp = NoFile
    /\ pc = "gates"
    /\ exit_status = NoExit
    /\ exit_reason = "none"
    /\ disk0 = NoFile
    /\ scope_entry = NoScopeEntry
    /\ queue0 = <<>>
    /\ modified_files = <<>>
    /\ diff_failed = FALSE
    /\ violations = <<>>
    /\ proposals = <<>>
    /\ trace = <<>>
    /\ gout = NoGout
    /\ inv = NoInvocations
    /\ fs = NoFileSystem
    /\ fin = NoFin
    /\ fout = NoFout
    /\ \/ /\ knowledge \in {GateDoc(q) : q \in SeqsUpTo({QA, QB}, MaxGateQueue)}
          /\ queue_max \in 1..MaxGateQueue
          /\ rfcs = <<>>
          /\ cur_branch = "main"
          /\ agent_context = GateContext("auth")
       \/ /\ knowledge \in {GateDoc(q) : q \in GateQueues}
          /\ queue_max = 1
          /\ rfcs \in SeqsUpTo(RFCPool, MaxRFCs)
          /\ \E bs \in {<<"main", "auth">>, <<"feat", "ui">>} :
                /\ cur_branch = bs[1]
                /\ agent_context = GateContext(bs[2])

GateInputs == <<inv, fs, fin, fout, cfg, disk, tmp, exit_status, exit_reason, disk0, agent_context,
                scope_entry, knowledge, queue0, rfcs, cur_branch, modified_files,
                diff_failed, violations, proposals, trace, queue_max>>

ApplyCheck5 ==
    /\ pc = "gates"
    /\ pc' = "g5"
    /\ gout' = [gout EXCEPT !.msg = check_queue_budget(knowledge, queue_max)]
    /\ UNCHANGED GateInputs

ApplyCheck6 ==
    /\ pc = "gates"
    /\ pc' = "g6"
    /\ gout' = [gout EXCEPT !.r6 = check_acceptance_criteria(knowledge, cur_branch, rfcs)]
    /\ UNCHANGED GateInputs

ApplyCheck7 ==
    /\ pc = "gates"
    /\ pc' = "g7"
    /\ gout' = [gout EXCEPT
                  !.r7 = check_rfc_scope_pause(knowledge, agent_context, rfcs, NowUTC)]
    /\ UNCHANGED GateInputs

NextGates == ApplyCheck5 \/ ApplyCheck6 \/ ApplyCheck7

SpecGates == InitGates /\ [][NextGates]_vars

----------------------------------------------------------------------------
(* The risk signals on their own: SpecRisk *)

MaxStmts == 2       \* top-level statements of a source text under SpecRisk
MaxStateRecs == 3   \* State records given to the record scans under SpecRisk

StmtPool ==
    {Pass, ExprConstant, ExprCall("check_permission"),
     FunctionDef("f", ArgsA, <<Pass>>),
     FunctionDef("f", ArgsA, <<ExprConstant, ExprCall("g")>>),
     FunctionDef("f", ArgsB, <<Pass>>),
     ClassDef("K", <<FunctionDef("f", ArgsA, <<ExprConstant>>)>>)}

Sources == {Source(b) : b \in SeqsUpTo(StmtPool, MaxStmts)} \cup {BadSource}

\* "./u/y.py"
P_ui_dot == <<".", "/">> \o P_ui

StateRec(path, scope, deps, invs) ==
    [path |-> path, semantic_scope |-> scope, dependencies |-> deps,
     invariants_touched |-> invs]

StateRecPool ==
    {StateRec(P_auth, "auth", <<P_ui>>, {}),
     StateRec(P_auth, "auth", <<P_ui_dot, P_ui>>, {}),
     StateRec(P_cfg, "ui", <<P_doc, P_ui>>, {"inv1"}),
     StateRec(P_doc, "ui", <<P_auth>>, {"inv1"}),
     StateRec(P_doc, "ui", <<>>, {})}

RiskPairs ==
    {<<NoContent, Source(<<>>)>>,
     <<Source(<<FunctionDef("f", ArgsA, <<Pass>>)>>),
       Source(<<ExprConstant, FunctionDef("f", ArgsA, <<Pass>>)>>)>>,
     <<Source(<<FunctionDef("f", ArgsA, <<Pass>>)>>),
       Source(<<FunctionDef("f", ArgsA, <<ExprCall("check_permission")>>)>>)>>}

RiskIn(base, head, filepath, state_records, security_patterns, elapsed_ms) ==
    [base |-> base, head |-> head, filepath |-> filepath,
     state_records |-> state_records, security_patterns |-> security_patterns,
     elapsed_ms |-> elapsed_ms]

NoRiskOut ==
    [mech |-> FALSE, pub_api |-> FALSE, fan_in |-> FALSE,
     signals |-> RiskSignals(FALSE, FALSE, FALSE, FALSE, "", FALSE)]

InitRisk ==
    /\ cfg = [skl_mode |-> "full", queue_max |-> DEFAULT_QUEUE_MAX]
    /\ disk = NoFile
    /\ tmp = NoFile
    /\ pc = "risk"
    /\ exit_status = NoExit
    /\ exit_reason = "none"
    /\ disk0 = NoFile
    /\ agent_context = NoContext
    /\ scope_entry = NoScopeEntry
    /\ knowledge = EmptyDoc
    /\ queue0 = <<>>
    /\ rfcs = <<>>
    /\ cur_branch = NoBranch
    /\ modified_files = <<>>
    /\ diff_failed = FALSE
    /\ violations = <<>>
    /\ proposals = <<>>
    /\ trace = <<>>
    /\ queue_max = 0
    /\ gout = NoGout
    /\ inv = NoInvocations
    /\ fs = NoFileSystem
    /\ fout = NoRiskOut
    /\ \/ \E base \in Sources \cup {NoContent}, head \in Sources,
            elapsed_ms \in {AST_TIMEOUT_MS, AST_TIMEOUT_MS + 1} :
              fin = RiskIn(base, head, P_ui, StateDoc, {"check_permission"}, elapsed_ms)
       \/ \E pair \in RiskPairs, filepath \in {P_ui, P_ui_dot},
            state_records \in SeqsUpTo(StateRecPool, MaxStateRecs),
            security_patterns \in {{}, {"check_permission"}} :
              fin = RiskIn(pair[1], pair[2], filepath, state_records,
                           security_patterns, 0)

FunInputs == <<inv, fs, cfg, disk, tmp, exit_status, exit_reason, disk0, agent_context,
               scope_entry, knowledge, queue0, rfcs, cur_branch, modified_files,
               diff_failed, violations, proposals, trace, queue_max, gout, fin>>

\* the tree differ and the signature extractor on one (base, head) pair
ApplyAstSignals ==
    /\ pc = "risk"
    /\ pc' = "r_ast"
    /\ fout' = [fout EXCEPT
                  !.mech = compute_mechanical_only(fin.base, fin.head, fin.elapsed_ms),
                  !.pub_api = compute_public_api_signature_changed(fin.base, fin.head)]
    /\ UNCHANGED FunInputs

ApplyHighFanIn ==
    /\ pc = "risk"
    /\ pc' = "r_fan"
    /\ fout' = [fout EXCEPT !.fan_in = compute_high_fan_in(fin.filepath, fin.state_records)]
    /\ UNCHANGED FunInputs

ApplyBuildRiskSignals ==
    /\ pc = "risk"
    /\ pc' = "r_signals"
    /\ fout' = [fout EXCEPT
                  !.mech = compute_mechanical_only(fin.base, fin.head, fin.elapsed_ms),
                  !.pub_api = compute_public_api_signature_changed(fin.base, fin.head),
                  !.signals = build_risk_signals(fin.base, fin.head, fin.filepath,
                                                 fin.state_records,
                                                 fin.security_patterns, fin.elapsed_ms)]
    /\ UNCHANGED FunInputs

NextRisk == ApplyAstSignals \/ ApplyHighFanIn \/ ApplyBuildRiskSignals

SpecRisk == InitRisk /\ [][NextRisk]_vars

----------------------------------------------------------------------------
(* The hook configuration and the queue maximum of a run: SpecConfig *)

\* hook_config.json as written by the project: a missing or unreadable file,
\* or an object that may lack "skl_mode" and "queue_max"
RawConfig(is_dict, has_mode, mode, has_queue_max, n) ==
    [is_dict |-> is_dict, has_mode |-> has_mode, skl_mode |-> mode,
     has_queue_max |-> has_queue_max, queue_max |-> n]

RawConfigs ==
    {RawConfig(FALSE, FALSE, "", FALSE, 0)}
        \cup {RawConfig(TRUE, FALSE, "", FALSE, 0)}
        \cup {RawConfig(TRUE, TRUE, m, FALSE, 0) : m \in {"full", "phase_0"}}
        \cup {RawConfig(TRUE, FALSE, "", TRUE, n) : n \in 1..MaxConfigured}
        \cup {RawConfig(TRUE, TRUE, m, TRUE, n) :
                  m \in {"full", "phase_0"}, n \in 1..MaxConfigured}

\* load_hook_config and config.get("skl_mode", "full"): the defaults fill
\* the missing keys
load_hook_config(raw) ==
    [skl_mode |-> IF raw.is_dict /\ raw.has_mode THEN raw.skl_mode ELSE "full",
     queue_max |-> IF raw.is_dict /\ raw.has_queue_max THEN raw.queue_max
                   ELSE DEFAULT_QUEUE_MAX]

NoConfigOut == [full |-> 0, phase_0 |-> 0]

InitConfig ==
    /\ NoRun
    /\ inv = NoInvocations
    /\ fs = NoFileSystem
    /\ pc = "config"
    /\ fin \in RawConfigs
    /\ fout = NoConfigOut

\* lines 957-965 on the loaded file; fout keeps what the same file gives in
\* each of the two modes
ApplyLoadConfig ==
    /\ pc = "config"
    /\ pc' = "c_done"
    /\ cfg' = load_hook_config(fin)
    /\ queue_max' = EffectiveQueueMax(cfg')
    /\ fout' = [full |-> EffectiveQueueMax([cfg' EXCEPT !.skl_mode = "full"]),
                phase_0 |-> EffectiveQueueMax([cfg' EXCEPT !.skl_mode = "phase_0"])]
    /\ UNCHANGED <<disk, tmp, exit_status, exit_reason, disk0, agent_context,
                   scope_entry, knowledge, queue0, rfcs, cur_branch, modified_files,
                   diff_failed, violations, proposals, trace, gout, fin, inv, fs>>

NextConfig == ApplyLoadConfig

SpecConfig == InitConfig /\ [][NextConfig]_vars

----------------------------------------------------------------------------
(* Check 3 as main() applies it to one modified file: SpecCheck3 *)

P_doc_dot == <<".", "/">> \o P_doc

InitCheck3 ==
    /\ NoRun
    /\ inv = NoInvocations
    /\ fs = NoFileSystem
    /\ pc = "check3"
    /\ fout = NoRiskOut
    /\ \E pair \in RiskPairs, filepath \in {P_ui, P_doc, P_doc_dot, P_cfg},
          state_records \in SeqsUpTo(StateRecPool, MaxStateRecs),
          security_patterns \in {{}, {"check_permission"}} :
            fin = RiskIn(pair[1], pair[2], filepath, state_records, security_patterns, 0)

ApplyCheck3 ==
    /\ pc = "check3"
    /\ pc' = "r_check3"
    /\ fout' = [fout EXCEPT
                  !.signals = check3_risk_signals(fin.filepath, fin.base, fin.head,
                                                  fin.state_records,
                                                  fin.security_patterns, fin.elapsed_ms)]
    /\ UNCHANGED FunInputs

NextCheck3 == ApplyCheck3

SpecCheck3 == InitCheck3 /\ [][NextCheck3]_vars

----------------------------------------------------------------------------
(* Check 1 and Check 2 on their own: SpecScope *)

MaxScopeFiles == 2  \* modified files under SpecScope

\* the elements of order whose index is in S, in order
PickSeq(order, S) ==
    LET f[k \in 0..Len(order)] ==
            IF k = 0 THEN <<>>
            ELSE IF k \in S THEN Append(f[k - 1], order[k]) ELSE f[k - 1]
    IN  f[Len(order)]

ScopeFileLists ==
    {PickSeq(FileOrder, S) : S \in {T \in SUBSET DOMAIN FileOrder :
                                        Cardinality(T) <= MaxScopeFiles}}

\* file_scope entries are written by hand in the Agent Context; "./u/y.py" is
\* the same file as "u/y.py"
FileScopes == SUBSET {P_auth, P_ui, P_cfg, P_ui_dot}

ScopeEntryPool ==
    {[present |-> TRUE, allowed_paths |-> ap, allowed_path_prefixes |-> app,
      forbidden_path_prefixes |-> fpp, defs_loaded |-> TRUE, known_expected |-> <<>>] :
        ap \in SUBSET {P_cfg, P_ui},
        app \in SUBSET {<<"a", "/">>, <<"u", "/", "y">>},
        fpp \in SUBSET {<<"u", "/">>, <<"d">>}}
        \cup {NoScopeEntry}

InitScope ==
    /\ cfg = [skl_mode |-> "full", queue_max |-> DEFAULT_QUEUE_MAX]
    /\ disk = NoFile
    /\ tmp = NoFile
    /\ pc = "scope"
    /\ exit_status = NoExit
    /\ exit_reason = "none"
    /\ disk0 = NoFile
    /\ agent_context \in {[present |-> TRUE, agent_id |-> "A1", semantic_scope |-> "ui",
                           file_scope |-> scope] : scope \in FileScopes}
    /\ scope_entry \in ScopeEntryPool
    /\ knowledge = EmptyDoc
    /\ queue0 = <<>>
    /\ rfcs = <<>>
    /\ cur_branch = NoBranch
    /\ modified_files \in ScopeFileLists
    /\ diff_failed = FALSE
    /\ violations = <<>>
    /\ proposals = <<>>
    /\ trace = <<>>
    /\ queue_max = 0
    /\ gout = NoGout
    /\ inv = NoInvocations
    /\ fs = NoFileSystem
    /\ fin = NoFin
    /\ fout = NoFout

ScopeInputs == <<inv, fs, cfg, disk, tmp, exit_status, exit_reason, disk0, agent_context,
                 scope_entry, knowledge, queue0, rfcs, cur_branch, modified_files,
                 diff_failed, proposals, trace, queue_max, gout, fin, fout>>

ApplyCheck1 ==
    /\ pc = "scope"
    /\ pc' = "s1"
    /\ violations' = check_file_scope(modified_files, agent_context.file_scope)
    /\ UNCHANGED ScopeInputs

ApplyCheck2 ==
    /\ pc = "s1"
    /\ pc' = "s2"
    /\ violations' = check_semantic_scope(violations, scope_entry)
    /\ UNCHANGED ScopeInputs

NextScope == ApplyCheck1 \/ ApplyCheck2

SpecScope == InitScope /\ [][NextScope]_vars

----------------------------------------------------------------------------
(* The dependency validator on its own: SpecDeps *)

MaxImports == 2     \* scanned imports under SpecDeps
MaxKnown == 1       \* known_expected_cross_scope_imports entries under SpecDeps

D_in == <<"i", "/", "y">>               \* "i/y"
D_in_dot == <<".", "/", "i", "/", "y">> \* "./i/y"
D_sib == <<"i", "x", "/", "y">>         \* "ix/y": next to the directory "i"
D_bk == <<"b", "/", "z">>               \* "b/z"
D_main == <<"b", "/", "m">>             \* "b/m": the modified file

ImportPool == {D_in, D_in_dot, D_sib, D_bk}

KnownPool == {<<"i", "/">>, D_in, D_sib, <<"b">>}

DepRecords ==
    {None,
     Some(StateRec(D_main, "backend", <<>>, {})),
     Some(StateRec(D_main, "backend", <<D_in_dot>>, {})),
     Some(StateRec(D_main, "backend", <<D_bk, D_sib>>, {}))}

\* the State records that give the owning scopes
DepIndexes ==
    {<<StateRec(D_in, "infra", <<>>, {}), StateRec(D_sib, "infra2", <<>>, {}),
       StateRec(D_bk, "backend", <<>>, {})>>,
     <<StateRec(D_in, "infra", <<>>, {}), StateRec(D_in_dot, "backend", <<>>, {})>>,
     <<StateRec(D_in, "", <<>>, {}), StateRec(D_sib, "infra", <<>>, {})>>}

DepsIn(scanned_imports, state_record, all_state_records, scope_definitions, agent_semantic_scope) ==
    [scanned_imports |-> scanned_imports, state_record |-> state_record,
     all_state_records |-> all_state_records, scope_definitions |-> scope_definitions,
     agent_semantic_scope |-> agent_semantic_scope]

NoDepsOut == [scan |-> DependencyScan(<<>>, <<>>, <<>>), known |-> {}]

InitDeps ==
    /\ cfg = [skl_mode |-> "full", queue_max |-> DEFAULT_QUEUE_MAX]
    /\ disk = NoFile
    /\ tmp = NoFile
    /\ pc = "deps"
    /\ exit_status = NoExit
    /\ exit_reason = "none"
    /\ disk0 = NoFile
    /\ agent_context = NoContext
    /\ scope_entry = NoScopeEntry
    /\ knowledge = EmptyDoc
    /\ queue0 = <<>>
    /\ rfcs = <<>>
    /\ cur_branch = NoBranch
    /\ modified_files = <<>>
    /\ diff_failed = FALSE
    /\ violations = <<>>
    /\ proposals = <<>>
    /\ trace = <<>>
    /\ queue_max = 0
    /\ gout = NoGout
    /\ inv = NoInvocations
    /\ fs = NoFileSystem
    /\ fout = NoDepsOut
    /\ \E scanned_imports \in SeqsUpTo(ImportPool, MaxImports),
          state_record \in DepRecords,
          all_state_records \in DepIndexes,
          scope_definitions \in {NoScopeDefs}
              \cup {ScopeDefs(k) : k \in SeqsUpTo(KnownPool, MaxKnown)},
          agent_semantic_scope \in {"backend", "infra"} :
            fin = DepsIn(scanned_imports, state_record, all_state_records,
                         scope_definitions, agent_semantic_scope)

ApplyValidateDependencies ==
    /\ pc = "deps"
    /\ pc' = "d_val"
    /\ fout' = [fout EXCEPT
                  !.scan = validate_dependencies(fin.scanned_imports, fin.state_record,
                              fin.all_state_records, fin.scope_definitions,
                              fin.agent_semantic_scope)]
    /\ UNCHANGED FunInputs

\* _is_known_expected on every scanned import
ApplyIsKnownExpected ==
    /\ pc = "deps"
    /\ pc' = "d_known"
    /\ fout' = [fout EXCEPT
                  !.known = {i \in DOMAIN fin.scanned_imports :
                                is_known_expected(fin.scanned_imports[i],
                                    fin.scope_definitions.known_expected_cross_scope_imports)}]
    /\ UNCHANGED FunInputs

NextDeps == ApplyValidateDependencies \/ ApplyIsKnownExpected

SpecDeps == InitDeps /\ [][NextDeps]_vars

----------------------------------------------------------------------------
(* Claims about the gate functions, checked under SpecGates *)

C5_Pending == Len(SelectSeq(knowledge.queue, LAMBDA e : e.status = "pending"))

C5_Contains(msg, a, b) ==
    \E i \in 1..(Len(msg) - 2) :
        msg[i] = ToString(a) /\ msg[i + 1] = "/" /\ msg[i + 2] = ToString(b)

\* C5: check_queue_budget returns a message if and only if the number of
\* entries with status "pending" is >= queue_max; entries of another status
\* are not counted; with queue_max - 1 pending it passes, with queue_max
\* pending it blocks, and the message contains "<pending_count>/<queue_max>".
C5_QueueBudget ==
    pc = "g5" =>
        /\ (gout.msg # NoMessage) <=> (C5_Pending >= queue_max)
        /\ C5_Pending = queue_max - 1 => gout.msg = NoMessage
        /\ C5_Pending = queue_max => gout.msg # NoMessage
        /\ gout.msg # NoMessage => C5_Contains(gout.msg, C5_Pending, queue_max)

\* the gate blocks exactly at the limit, with a non-pending entry in the queue
C5_Witness ==
    /\ pc = "g5"
    /\ C5_Pending = queue_max
    /\ Len(knowledge.queue) > C5_Pending
    /\ gout.msg # NoMessage

\* the queue entry that an RFC's triggering_proposal resolves to: the last
\* entry of the queue carrying that proposal_id
C7_Resolves(rfc, j) ==
    /\ j \in DOMAIN knowledge.queue
    /\ rfc.triggering # NoId
    /\ knowledge.queue[j].proposal_id = rfc.triggering
    /\ \A m \in DOMAIN knowledge.queue :
          knowledge.queue[m].proposal_id = rfc.triggering => m <= j

C7_Blocking(rfc) ==
    /\ rfc.parse_ok
    /\ rfc.status = "open"
    /\ rfc.flag = TRUE
    /\ \E j \in DOMAIN knowledge.queue :
          /\ C7_Resolves(rfc, j)
          /\ knowledge.queue[j].branch # ""
          /\ knowledge.queue[j].branch = cur_branch
    /\ \E c \in DOMAIN rfc.criteria : rfc.criteria[c].status # "passed"

\* C7: check_acceptance_criteria returns False if and only if some RFC is
\* open, has merge_blocked_until_criteria_pass true, has a triggering proposal
\* that resolves to a queue entry whose branch is the current branch, and has
\* an acceptance criterion whose status is not "passed".
C7_AcceptanceIff ==
    pc = "g6" => (~gout.r6.allow <=> \E i \in DOMAIN rfcs : C7_Blocking(rfcs[i]))

\* the gate blocks on the second RFC after skipping a first one that is
\* tied to another branch
C7_Witness ==
    /\ pc = "g6"
    /\ ~gout.r6.allow
    /\ Len(rfcs) = 2
    /\ ~C7_Blocking(rfcs[1])
    /\ rfcs[1].status = "open" /\ rfcs[1].flag = TRUE /\ rfcs[1].parse_ok
    /\ \E j \in DOMAIN knowledge.queue :
          C7_Resolves(rfcs[1], j) /\ knowledge.queue[j].branch \notin {"", cur_branch}

C8_First == CHOOSE i \in DOMAIN rfcs :
                C7_Blocking(rfcs[i]) /\ \A m \in 1..(i - 1) : ~C7_Blocking(rfcs[m])

\* C8: when the acceptance gate blocks it reports the id of the first
\* blocking RFC in listing order, names exactly that RFC's criteria whose
\* status is not "passed", and has examined no RFC after that one.
C8_FirstBlockingReport ==
    (pc = "g6" /\ ~gout.r6.allow) =>
        LET rfc == rfcs[C8_First]
        IN  /\ gout.r6.rfc_id = (IF rfc.id = "" THEN rfc.name ELSE rfc.id)
            /\ {gout.r6.failing[j] : j \in DOMAIN gout.r6.failing}
                  = {rfc.criteria[c].ac_id :
                        c \in {d \in DOMAIN rfc.criteria : rfc.criteria[d].status # "passed"}}
            /\ gout.r6.examined = C8_First

\* two blocking RFCs with different ids and different failing criteria, the
\* first of them with a passed criterion
C8_Witness ==
    /\ pc = "g6"
    /\ ~gout.r6.allow
    /\ Len(rfcs) = 2
    /\ C7_Blocking(rfcs[1]) /\ C7_Blocking(rfcs[2])
    /\ rfcs[1].id # rfcs[2].id
    /\ \E c \in DOMAIN rfcs[1].criteria : rfcs[1].criteria[c].status = "passed"
    /\ \E c \in DOMAIN rfcs[2].criteria : rfcs[2].criteria[c].status = "failed"

\* the deadline of an RFC as a UTC instant is known and not later than now
C9_Expired(rfc) ==
    \/ rfc.deadline.form = "Z" /\ rfc.deadline.local <= NowUTC
    \/ rfc.deadline.form = "offset" /\ rfc.deadline.local - rfc.deadline.off <= NowUTC

C9_Blocking(rfc) ==
    /\ rfc.parse_ok
    /\ rfc.status = "open"
    /\ C9_Expired(rfc)
    /\ \E j \in DOMAIN knowledge.queue :
          /\ C7_Resolves(rfc, j)
          /\ knowledge.queue[j].semantic_scope = agent_context.semantic_scope

\* C9: check_rfc_scope_pause returns False if and only if some RFC is open,
\* has a deadline not later than the evaluation time and a triggering
\* proposal that resolves to a queue entry of the agent's semantic scope;
\* otherwise it returns True.
C9_ScopePauseIff ==
    pc = "g7" =>
        gout.r7.outcome = (IF \E i \in DOMAIN rfcs : C9_Blocking(rfcs[i])
                           THEN "block" ELSE "allow")

\* C30: for every open RFC and every value of its human_response_deadline
\* (missing, empty, not a string, not an ISO timestamp, a timestamp with an
\* offset or "Z", a timestamp without offset) check_rfc_scope_pause returns
\* True or False without raising, and an RFC whose deadline cannot be
\* interpreted is skipped while the remaining RFCs are still evaluated.
C30_ReturnsBool ==
    pc = "g7" => gout.r7.outcome \in {"allow", "block"}

----------------------------------------------------------------------------
(* Claims about main(), checked under Spec *)

Rank(step) ==
    CASE step = "check1" -> 1
      [] step = "check2" -> 2
      [] step = "check5" -> 3
      [] step = "check6" -> 4
      [] step = "check7" -> 5
      [] step = "perfile" -> 6
      [] step = "write" -> 7

InTrace(step) == \E i \in DOMAIN trace : trace[i] = step

\* C1: the steps of a run happen in the order Check 1, Check 2, Check 5,
\* Check 6, Check 7, per-file analysis, write; the per-file analysis and the
\* write are reached only after the queue gate was evaluated and no gate
\* blocked, and no gate is evaluated after an earlier gate blocked.
C1_FixedOrder ==
    /\ \A i \in 1..(Len(trace) - 1) :
          \/ Rank(trace[i]) < Rank(trace[i + 1])
          \/ trace[i] = "perfile" /\ trace[i + 1] = "perfile"
    /\ trace # <<>> => trace[1] = "check1"
    /\ (InTrace("perfile") \/ InTrace("write") \/ pc \in {"perfile", "summary"} \cup WritePcs) =>
          /\ InTrace("check5")
          /\ gout.msg = NoMessage
          /\ gout.r6.allow
          /\ gout.r7.outcome = "allow"
    /\ gout.msg # NoMessage => ~InTrace("check6") /\ ~InTrace("check7")
    /\ ~gout.r6.allow => ~InTrace("check7")

\* a full-mode run that executed every step, with two files, and exited 0
C1_Witness ==
    /\ pc = "exit"
    /\ exit_status = 0
    /\ trace = <<"check1", "check2", "check5", "check6", "check7",
                 "perfile", "perfile", "write">>

C2_Reasons == {"setup_agent_id", "setup_agent_context", "setup_knowledge",
               "gate_queue", "gate_acceptance", "gate_scope_pause"}

\* C2: when a run ends with a non-zero status because of a setup error or
\* because a gate blocked, no proposal was built and the file at
\* knowledge_path is the one that was there when the run started.
C2_NoWriteOnAbort ==
    (pc = "exit" /\ exit_status # 0 /\ exit_reason \in C2_Reasons) =>
        /\ proposals = <<>>
        /\ disk = disk0

\* the knowledge document is corrupt and the run ends with status 1
C2_Witness ==
    /\ pc = "exit"
    /\ exit_status = 1
    /\ exit_reason = "setup_knowledge"
    /\ disk0 = File(CorruptData)

\* C3: while atomic_write_knowledge runs, and after it failed or the process
\* was killed inside it, the file at knowledge_path is the previously
\* persisted document; a write failure ends the run with status 1; the file
\* at knowledge_path is at no step a partially written document.
C3_AtomicWrite ==
    /\ (pc \in WritePcs \/ exit_reason \in {"write_failed", "killed"}) => disk = disk0
    /\ exit_reason = "write_failed" => exit_status = 1
    /\ (pc \notin {"idle", "gates", "g5", "g6", "g7"}
            /\ exit_reason \notin {"setup_repo_root", "setup_agent_id",
                                   "setup_agent_context", "setup_knowledge"}) =>
          /\ disk.exists
          /\ WellFormed(disk.data)
          /\ disk = disk0 \/ disk.data = Serialize(knowledge)

\* the write failed after part of the document had gone into the temporary file
C3_Witness ==
    /\ pc = "exit"
    /\ exit_reason = "write_failed"
    /\ tmp.exists
    /\ Len(tmp.data) > 3
    /\ ~WellFormed(tmp.data)
    /\ disk = disk0

\* C4: after a run that exits with status 0 the persisted queue is the queue
\* of the document found at the start followed by one new proposal per
\* modified file, in modified-file order; state and invariants are unchanged.
C4_AppendOnly ==
    (pc = "exit" /\ exit_status = 0) =>
        LET before == read_json_file(disk0).doc
            after == read_json_file(disk)
        IN  /\ after.ok
            /\ Len(after.doc.queue) = Len(before.queue) + Len(modified_files)
            /\ SubSeq(after.doc.queue, 1, Len(before.queue)) = before.queue
            /\ \A i \in DOMAIN modified_files :
                  /\ after.doc.queue[Len(before.queue) + i].path = modified_files[i]
                  /\ after.doc.queue[Len(before.queue) + i] = proposals[i]
            /\ after.doc.state = before.state
            /\ after.doc.invariants = before.invariants

\* two files appended to a non-empty queue
C4_Witness ==
    /\ pc = "exit"
    /\ exit_status = 0
    /\ Len(modified_files) = 2
    /\ read_json_file(disk0).doc.queue # <<>>
    /\ disk # disk0

C6_DiskPending ==
    LET q == read_json_file(disk).doc.queue
    IN  Len(SelectSeq(q, LAMBDA e : e.status = "pending"))

\* C6 as stated: the number of pending proposals in the persisted queue
\* never exceeds queue_max.
C6_Original == C6_DiskPending <= EffectiveQueueMax(cfg)

\* C6 amended: a run appends proposals only when the queue it loaded has
\* fewer than queue_max pending entries, and the persisted pending count
\* never exceeds queue_max - 1 plus the largest number of files of one run.
C6_Amended ==
    /\ C6_DiskPending <= EffectiveQueueMax(cfg) - 1 + MaxFiles
    /\ disk # disk0 =>
          Len(SelectSeq(read_json_file(disk0).doc.queue, LAMBDA e : e.status = "pending"))
              < EffectiveQueueMax(cfg)

\* a run passed the gate with queue_max - 1 pending and left more than
\* queue_max pending proposals
C6_Witness ==
    /\ pc = "exit"
    /\ exit_status = 0
    /\ disk # disk0
    /\ C6_DiskPending = EffectiveQueueMax(cfg) - 1 + MaxFiles
    /\ C6_DiskPending > EffectiveQueueMax(cfg)

C10_PastGates == pc \in {"perfile", "summary"} \cup WritePcs

C10_Phase0 ==
    cfg.skl_mode = "phase_0" =>
        /\ ~InTrace("check2") /\ ~InTrace("check6") /\ ~InTrace("check7")
        /\ \A i \in DOMAIN proposals : ~proposals[i].cross_scope_flag
        /\ exit_reason \notin {"gate_acceptance", "gate_scope_pause"}

\* C10 as stated: in phase_0 Check 2, Check 6 and Check 7 never run, no
\* proposal is flagged cross_scope and only the queue gate can block; in
\* full mode all three run.
C10_Original ==
    /\ C10_Phase0
    /\ (cfg.skl_mode = "full" /\ C10_PastGates) =>
          InTrace("check2") /\ InTrace("check6") /\ InTrace("check7")

\* C10 amended: as stated for phase_0; in full mode Check 2 and Check 7 run,
\* and Check 6 runs exactly when git rev-parse gave the current branch.
C10_Amended ==
    /\ C10_Phase0
    /\ (cfg.skl_mode = "full" /\ C10_PastGates) =>
          /\ InTrace("check2") /\ InTrace("check7")
          /\ InTrace("check6") <=> cur_branch # NoBranch

\* a phase_0 run exits 0 with proposals although an RFC of the agent's scope
\* has unmet criteria and an expired deadline and a file matches a forbidden prefix
C10_Witness ==
    /\ cfg.skl_mode = "phase_0"
    /\ pc = "exit"
    /\ exit_status = 0
    /\ rfcs = <<R_unmet, R_expired>>
    /\ agent_context.semantic_scope = "auth"
    /\ \E i \in DOMAIN queue0 : queue0[i].proposal_id = E1.proposal_id
    /\ scope_entry.present
    /\ \E i \in DOMAIN proposals :
          \E p \in scope_entry.forbidden_path_prefixes : startswith(proposals[i].path, p)

----------------------------------------------------------------------------
(* Claims about the risk signals, checked under SpecRisk *)

C11_NoComparison == ~fin.base.present \/ ~fin.base.parse_ok \/ ~fin.head.parse_ok

\* C11: when base is absent, or base or head fails to parse,
\* compute_mechanical_only returns false and
\* compute_public_api_signature_changed returns true, and the risk signals
\* built from the pair have mechanical_only false and
\* public_api_signature_changed true.
C11_SafeDefaults ==
    (pc \in {"r_ast", "r_signals"} /\ C11_NoComparison) =>
        /\ ~fout.mech
        /\ fout.pub_api
        /\ pc = "r_signals" =>
              /\ ~fout.signals.mechanical_only
              /\ fout.signals.public_api_signature_changed

C11_Witness ==
    /\ pc = "r_signals"
    /\ fin.base = BadSource
    /\ fin.head.parse_ok
    /\ fin.head.body # <<>>
    /\ fout.signals.ast_change_type = "structural"

\* C12: whenever compute_mechanical_only(base, head) is true,
\* compute_public_api_signature_changed(base, head) is false: dropping the
\* constant-expression and pass statements never hides an added, removed or
\* signature-altered top-level function or class.
C12_MechanicalKeepsApi ==
    (pc = "r_ast" /\ fout.mech) => ~fout.pub_api

C12_Witness ==
    /\ pc = "r_ast"
    /\ fout.mech
    /\ fin.base # fin.head
    /\ \E i \in DOMAIN fin.head.body : fin.head.body[i].kind = "ClassDef"
    /\ Len(fin.base.body) # Len(fin.head.body)

\* C13: in the record build_risk_signals returns, mechanical_only is true
\* exactly when ast_change_type is "mechanical" and the auth-pattern,
\* invariant-reference and high-fan-in signals are all false; ast_change_type
\* is "mechanical" when the tree differ reports mechanical, otherwise
\* "structural" when the signature changed, otherwise "behavioral".
C13_RiskRecord ==
    pc = "r_signals" =>
        LET s == fout.signals
        IN  /\ s.mechanical_only <=>
                  /\ s.ast_change_type = "mechanical"
                  /\ ~s.touched_auth_or_permission_patterns
                  /\ ~s.invariant_referenced_file_modified
                  /\ ~s.high_fan_in_module_modified
            /\ fout.mech => s.ast_change_type = "mechanical"
            /\ (~fout.mech /\ s.public_api_signature_changed) =>
                  s.ast_change_type = "structural"
            /\ (~fout.mech /\ ~s.public_api_signature_changed) =>
                  s.ast_change_type = "behavioral"

C13_Witness ==
    /\ pc = "r_signals"
    /\ fout.signals.ast_change_type = "mechanical"
    /\ ~fout.signals.mechanical_only
    /\ fout.signals.high_fan_in_module_modified
    /\ ~fout.signals.touched_auth_or_permission_patterns

\* the State records that list the modified path, each once
C14_Listing ==
    {r \in DOMAIN fin.state_records :
        \E d \in DOMAIN fin.state_records[r].dependencies :
            normpath(fin.state_records[r].dependencies[d]) = normpath(fin.filepath)}

\* C14: compute_high_fan_in returns true if and only if the modified path is
\* in the dependencies of at least 3 State records, a record counting once
\* however often it lists the path; with exactly 2 such records it is false.
C14_HighFanIn ==
    pc = "r_fan" =>
        /\ fout.fan_in <=> Cardinality(C14_Listing) >= 3
        /\ Cardinality(C14_Listing) = 2 => ~fout.fan_in

C14_Witness ==
    /\ pc = "r_fan"
    /\ Cardinality(C14_Listing) = 2
    /\ \A r \in C14_Listing : Len(fin.state_records[r].dependencies) = 2
    /\ Len(fin.state_records) = 3
    /\ ~fout.fan_in

----------------------------------------------------------------------------
(* Claims about Check 1 and Check 2, checked under SpecScope *)

C15_Flagged(path) ==
    /\ path \notin scope_entry.allowed_paths
    /\ ~\E p \in scope_entry.allowed_path_prefixes :
           Len(p) <= Len(path) /\ SubSeq(path, 1, Len(p)) = p
    /\ \E p \in scope_entry.forbidden_path_prefixes :
          Len(p) <= Len(path) /\ SubSeq(path, 1, Len(p)) = p

\* C15: check_semantic_scope sets cross_scope_flag on a modified path if and
\* only if the path is not a member of allowed_paths, starts with no
\* allowed_path_prefixes entry and starts with some forbidden_path_prefixes
\* entry; a path listed in allowed_paths is never flagged even when a
\* forbidden prefix matches it; with no scope definition for the agent the
\* check changes nothing.
C15_SemanticScope ==
    [][(pc = "s1" /\ pc' = "s2") =>
          /\ DOMAIN violations' = DOMAIN violations
          /\ \A i \in DOMAIN violations :
                /\ violations'[i].path = violations[i].path
                /\ violations'[i].out_of_scope = violations[i].out_of_scope
                /\ scope_entry.present =>
                      (violations'[i].cross_scope_flag <=> C15_Flagged(violations[i].path))
                /\ (violations[i].path \in scope_entry.allowed_paths) =>
                      ~violations'[i].cross_scope_flag
          /\ ~scope_entry.present => violations' = violations]_vars

C15_Witness ==
    /\ pc = "s2"
    /\ scope_entry.present
    /\ Len(violations) = 2
    /\ violations[1].path = P_ui
    /\ P_ui \in scope_entry.allowed_paths
    /\ <<"u", "/">> \in scope_entry.forbidden_path_prefixes
    /\ ~violations[1].cross_scope_flag
    /\ violations[2].path = P_doc
    /\ violations[2].cross_scope_flag

\* C16: check_file_scope returns an entry for every modified file; with an
\* empty file_scope no file is out_of_scope, and with a non-empty file_scope
\* a modified file is out_of_scope if and only if its path is not in
\* file_scope.
C16_FileScope ==
    pc = "s1" =>
        /\ Len(violations) = Len(modified_files)
        /\ \A i \in DOMAIN modified_files :
              /\ violations[i].path = modified_files[i]
              /\ agent_context.file_scope = {} => ~violations[i].out_of_scope
              /\ agent_context.file_scope # {} =>
                    (violations[i].out_of_scope <=>
                        modified_files[i] \notin agent_context.file_scope)

C16_Witness ==
    /\ pc = "s1"
    /\ agent_context.file_scope = {P_auth}
    /\ modified_files = <<P_ui, P_auth>>
    /\ violations[1].out_of_scope
    /\ ~violations[2].out_of_scope

\* the inputs of Check 1 and Check 2 with every path in its normal spelling
C21_NormalFiles == [i \in DOMAIN modified_files |-> normpath(modified_files[i])]

C21_NormalFileScope == {normpath(p) : p \in agent_context.file_scope}

C21_NormalEntry ==
    [scope_entry EXCEPT !.allowed_paths = {normpath(p) : p \in scope_entry.allowed_paths}]

\* C21: every path is compared only after normalization, so that equivalent
\* spellings of one path (a leading "./", redundant separators) are never
\* treated as distinct: replacing a modified path, a file_scope entry or an
\* allowed path by its normal spelling changes neither out_of_scope nor
\* cross_scope_flag of any modified file.
C21_SpellingInsensitive ==
    /\ pc \in {"s1", "s2"} =>
          \A i \in DOMAIN violations :
              violations[i].out_of_scope
                  = check_file_scope(C21_NormalFiles, C21_NormalFileScope)[i].out_of_scope
    /\ pc = "s2" =>
          \A i \in DOMAIN violations :
              violations[i].cross_scope_flag
                  = check_semantic_scope(
                        check_file_scope(C21_NormalFiles, C21_NormalFileScope),
                        C21_NormalEntry)[i].cross_scope_flag

----------------------------------------------------------------------------
(* Claims about the dependency validator, checked under SpecDeps *)

C19_Known == fin.scope_definitions.known_expected_cross_scope_imports

\* the import equals an entry, or lies under an entry that names a directory
C19_Expected(imp) ==
    \E e \in DOMAIN C19_Known :
        \/ normpath(C19_Known[e]) = normpath(imp)
        \/ /\ C19_Known[e][Len(C19_Known[e])] = "/"
           /\ Len(C19_Known[e]) <= Len(normpath(imp))
           /\ SubSeq(normpath(imp), 1, Len(C19_Known[e])) = C19_Known[e]

C18_Scanned == {normpath(fin.scanned_imports[i]) : i \in DOMAIN fin.scanned_imports}
C18_Declared ==
    IF fin.state_record = None THEN {}
    ELSE {normpath(fin.state_record[1].dependencies[i]) :
            i \in DOMAIN fin.state_record[1].dependencies}

\* the scope of the last State record whose path is p, "" without one
C18_Owner(p) ==
    LET hits == {i \in DOMAIN fin.all_state_records :
                    normpath(fin.all_state_records[i].path) = p}
    IN  IF hits = {} THEN ""
        ELSE fin.all_state_records[CHOOSE i \in hits : \A j \in hits : j <= i].semantic_scope

\* C18: validate_dependencies records an import in cross_scope_undeclared if
\* and only if it is an undeclared import (for a new file: any resolved
\* import), its owning scope in the state index is non-empty and is not the
\* acting agent's scope, and it matches no known-expected entry; for a new
\* file this is computed too, while undeclared_imports and
\* stale_declared_deps are reported empty.
C18_CrossScope ==
    pc = "d_val" =>
        /\ \A p \in C18_Scanned \cup C18_Declared :
              (p \in Range(fout.scan.cross_scope_undeclared)) <=>
                  /\ p \in C18_Scanned \ C18_Declared
                  /\ C18_Owner(p) # ""
                  /\ C18_Owner(p) # fin.agent_semantic_scope
                  /\ ~C19_Expected(p)
        /\ Range(fout.scan.cross_scope_undeclared) \subseteq C18_Scanned
        /\ fin.state_record = None =>
              /\ fout.scan.undeclared_imports = <<>>
              /\ fout.scan.stale_declared_deps = <<>>

\* C19: an import path is treated as known-expected if and only if it equals
\* some known_expected_cross_scope_imports entry after normalization, or
\* some entry ends with a path separator and the import path starts with
\* that entry, separator included, so that the import lies under that
\* directory.
C19_KnownExpected ==
    pc = "d_known" =>
        \A i \in DOMAIN fin.scanned_imports :
            (i \in fout.known) <=> C19_Expected(fin.scanned_imports[i])

----------------------------------------------------------------------------
(* Claims about the per-file loop, checked under Spec *)

\* the ways a run ends without passing the gates and completing the write
C17_NotPassed ==
    {"setup_repo_root", "setup_agent_id", "setup_agent_context", "setup_knowledge",
     "gate_queue", "gate_acceptance", "gate_scope_pause", "exception",
     "write_failed", "killed"}

C17_Tag == "cross_scope_undeclared_dependency"

\* C17: the per-file flags are advisory: a run that passes the queue,
\* acceptance and scope-pause gates and whose write succeeds exits with
\* status 0 and has appended a proposal for every modified file, whatever
\* the out_of_scope, cross_scope_flag and blocking_reasons of the files;
\* blocking_reasons holds "cross_scope_undeclared_dependency" if and only if
\* the file's cross_scope_undeclared list is non-empty.
C17_Advisory ==
    /\ (pc = "exit" /\ exit_reason \notin C17_NotPassed) =>
          LET after == read_json_file(disk).doc.queue
          IN  /\ exit_status = 0
              /\ Len(proposals) = Len(modified_files)
              /\ \A i \in DOMAIN modified_files :
                    /\ Len(after) >= Len(queue0) + i
                    /\ after[Len(queue0) + i].path = modified_files[i]
                    /\ after[Len(queue0) + i].out_of_scope = violations[i].out_of_scope
                    /\ after[Len(queue0) + i].cross_scope_flag
                          = violations[i].cross_scope_flag
    /\ \A i \in DOMAIN proposals :
          (\E r \in DOMAIN proposals[i].blocking_reasons :
                proposals[i].blocking_reasons[r] = C17_Tag)
              <=> Len(proposals[i].dependency_scan.cross_scope_undeclared) > 0

C17_Witness ==
    /\ pc = "exit"
    /\ exit_status = 0
    /\ Len(proposals) = 2
    /\ proposals[1].out_of_scope
    /\ proposals[1].cross_scope_flag
    /\ proposals[1].blocking_reasons = <<C17_Tag>>
    /\ proposals[2].blocking_reasons = <<>>
    /\ read_json_file(disk).doc.queue[Len(queue0) + 1] = proposals[1]

\* C20: within one run the identifiers of the newly built proposals are
\* pairwise distinct: the i-th modified file gets the sequence number
\* (queue length at load time) + i, together with the submission date and
\* the agent id.
C20_DistinctIds ==
    /\ \A i \in DOMAIN proposals :
          proposals[i].proposal_id = <<Today, agent_context.agent_id, Len(queue0) + i>>
    /\ \A i \in DOMAIN proposals : \A j \in DOMAIN proposals :
          i # j => proposals[i].proposal_id # proposals[j].proposal_id

C20_Witness ==
    /\ Len(proposals) = 2
    /\ Len(queue0) = 1
    /\ proposals[2].proposal_id[3] = 3

\* C23: for a file with a State record validate_dependencies returns
\* undeclared_imports = resolved imports minus declared dependencies and
\* stale_declared_deps = declared dependencies minus resolved imports, both
\* over normalized paths, so that the two lists are disjoint, no undeclared
\* import is declared and no stale dependency is imported; for a file with
\* no State record both lists are empty.
C23_Differences ==
    pc = "d_val" =>
        IF fin.state_record = None
        THEN /\ fout.scan.undeclared_imports = <<>>
             /\ fout.scan.stale_declared_deps = <<>>
        ELSE /\ Range(fout.scan.undeclared_imports) = C18_Scanned \ C18_Declared
             /\ Range(fout.scan.stale_declared_deps) = C18_Declared \ C18_Scanned
             /\ Len(fout.scan.undeclared_imports) = Cardinality(C18_Scanned \ C18_Declared)
             /\ Len(fout.scan.stale_declared_deps) = Cardinality(C18_Declared \ C18_Scanned)
             /\ Range(fout.scan.undeclared_imports)
                    \cap Range(fout.scan.stale_declared_deps) = {}
             /\ Range(fout.scan.undeclared_imports) \cap C18_Declared = {}
             /\ Range(fout.scan.stale_declared_deps) \cap C18_Scanned = {}

C23_Witness ==
    /\ pc = "d_val"
    /\ fin.state_record # None
    /\ fin.scanned_imports = <<D_in_dot, D_bk>>
    /\ fin.state_record[1].dependencies = <<D_bk, D_sib>>
    /\ fout.scan.undeclared_imports = <<D_in>>
    /\ fout.scan.stale_declared_deps = <<D_sib>>

----------------------------------------------------------------------------
(* Claims about Check 3 in the per-file loop, checked under SpecCheck3 *)

\* C22: for every modified file that is not source code (its path does not
\* end in .py) the risk signals of its proposal have mechanical_only =
\* false, public_api_signature_changed = false and
\* touched_auth_or_permission_patterns = false, while
\* invariant_referenced_file_modified and high_fan_in_module_modified are
\* still computed from the State records.
C22_NonSourceDefaults ==
    (pc = "r_check3" /\ ~endswith(fin.filepath, DotPy)) =>
        /\ fout.signals.mechanical_only = FALSE
        /\ fout.signals.public_api_signature_changed = FALSE
        /\ fout.signals.touched_auth_or_permission_patterns = FALSE
        /\ fout.signals.invariant_referenced_file_modified
              = compute_invariant_referenced_file_modified(fin.filepath, fin.state_records)
        /\ fout.signals.high_fan_in_module_modified
              = compute_high_fan_in(fin.filepath, fin.state_records)

----------------------------------------------------------------------------
(* Claims about a failed git diff, checked under Spec *)

C24_GateReasons == {"gate_queue", "gate_acceptance", "gate_scope_pause"}

\* C24: when the modified-file list cannot be obtained from version control
\* the run takes the change set as empty: the queue, acceptance and
\* scope-pause gates are evaluated as in any run and a non-zero exit comes
\* from them alone; once they have passed no proposal is built, the
\* knowledge document is never written and the run exits with status zero.
C24_DiffFailure ==
    diff_failed =>
        /\ modified_files = <<>>
        /\ violations = <<>>
        /\ proposals = <<>>
        /\ pc \notin WritePcs
        /\ ~InTrace("write")
        /\ disk = disk0
        /\ pc \in {"check6", "check7", "perfile", "summary"} => InTrace("check5")
        /\ pc = "exit" =>
              \/ exit_status = 1 /\ exit_reason \in C24_GateReasons
              \/ exit_status = 1 /\ exit_reason = "exception"
              \/ /\ exit_status = 0
                 /\ exit_reason = "ok"
                 /\ InTrace("check5")
                 /\ (cfg.skl_mode # "phase_0" /\ cur_branch # NoBranch) => InTrace("check6")
                 /\ cfg.skl_mode # "phase_0" => InTrace("check7")

C24_Witness ==
    /\ diff_failed
    /\ pc = "exit"
    /\ exit_status = 0
    /\ cfg.skl_mode = "full"
    /\ InTrace("check6")
    /\ InTrace("check7")
    /\ Len(queue0) = 1
    /\ disk = disk0

----------------------------------------------------------------------------
(* Claims about the queue maximum, checked under SpecConfig *)

\* C25: the queue maximum used in the relaxed bootstrap mode (phase_0) is
\* larger than the maximum used in full operation, for every hook
\* configuration, that is for every configured value of queue_max.
C25_RelaxedIsLarger ==
    pc = "c_done" => fout.phase_0 > fout.full

----------------------------------------------------------------------------
(* Claims about termination, checked under SpecOnce *)

C26_Count(step) == Cardinality({i \in DOMAIN trace : trace[i] = step})

\* each gate and the write run at most once, the per-file computation at
\* most once per modified file, and nothing follows the exit
C26_OnceEach ==
    /\ \A step \in {"check1", "check2", "check5", "check6", "check7", "write"} :
          C26_Count(step) <= 1
    /\ C26_Count("perfile") <= Len(modified_files)
    /\ C26_Count("perfile") = Len(proposals)
    /\ \A i \in 1..(Len(trace) - 1) : Rank(trace[i]) <= Rank(trace[i + 1])

\* C26: every run terminates: from any inputs (knowledge document, RFC set,
\* change set and mode) the run eventually reaches an exit with status zero
\* or non-zero; each gate and per-file computation runs to completion once,
\* in sequence, and no step is retried or re-entered after a failure.
C26_Terminates ==
    /\ <>(pc = "exit" /\ exit_status # NoExit)
    /\ [][pc = "exit" => pc' = "exit"]_vars
    /\ []C26_OnceEach

C26_Witness ==
    /\ pc = "exit"
    /\ exit_status = 1
    /\ exit_reason = "write_failed"
    /\ Len(proposals) = 2
    /\ trace = <<"check1", "check2", "check5", "check6", "check7",
                 "perfile", "perfile", "write">>

----------------------------------------------------------------------------
(* Claims about proposal ids across runs, checked under SpecReview *)

\* C29: after any sequence of successful runs of one agent on one date,
\* with a reviewer changing statuses or removing queue entries between the
\* runs, the proposal_id values of the persisted queue are pairwise
\* distinct: a new proposal never gets the id of a proposal in the queue.
C29_PersistedIdsDistinct ==
    read_json_file(disk).ok =>
        LET q == read_json_file(disk).doc.queue
        IN  \A i \in DOMAIN q : \A j \in DOMAIN q :
                i # j => q[i].proposal_id # q[j].proposal_id

----------------------------------------------------------------------------
(* Claims about concurrent invocations, checked under SpecConc *)

C27_Persisted == read_json_file(File(fs.inodes[fs.path]))

C27_BothWrote ==
    /\ \A p \in Invocations :
          /\ inv[p].pc = "exit"
          /\ inv[p].exit_status = 0
          /\ inv[p].proposals # <<>>
    /\ inv[1].loaded = inv[2].loaded

\* C27: the engine does not coordinate concurrent invocations: when two
\* invocations have loaded the same knowledge document, have passed the
\* gates, have written and have both exited with status zero, the persisted
\* queue is the loaded queue followed by the proposals of one of them only;
\* the append of the other is lost.
C27_LostUpdate ==
    C27_BothWrote =>
        /\ C27_Persisted.ok
        /\ \E p \in Invocations :
              C27_Persisted.doc.queue = inv[p].loaded \o inv[p].proposals
        /\ \E p \in Invocations :
              \A i \in DOMAIN C27_Persisted.doc.queue :
                  C27_Persisted.doc.queue[i] # inv[p].proposals[1]

C27_Witness ==
    /\ C27_BothWrote
    /\ inv[1].loaded = <<E1>>
    /\ C27_Persisted.doc.queue = <<E1>> \o inv[2].proposals
    /\ inv[1].proposals[1].path = P_ui

\* C28: under every interleaving of two invocations that write the same
\* knowledge_path through the one temporary path knowledge_path + ".tmp",
\* the document at knowledge_path is at every moment a complete document
\* fully written by one invocation (or the document the invocations found),
\* never a truncated, partially written or mixed one.
C28_AlwaysComplete ==
    pc = "conc" =>
        \/ fs.inodes[fs.path] = fs.inodes[1]
        \/ \E p \in Invocations :
              /\ inv[p].pc \in {"write_data", "write_replace", "exit"}
              /\ fs.inodes[fs.path] = Serialize(inv[p].knowledge)

============================================================================
